---- MODULE Spec2Model ----
(***************************************************************************)
(* Verification model of the predicate expression engine (src/predicate.c).*)
(*                                                                         *)
(* Nodes live in a heap indexed by small naturals (node pointers); a value *)
(* of tag "predicate" is the script object that wraps the node with the    *)
(* same index.  Owned byte buffers live in `bufs`, reference counts of     *)
(* script values in `rc`, array sinks in `arrays`.  `obs` records what the *)
(* last operation did (its result, how far it moved the cursor, the calls  *)
(* it made).                                                               *)
(***************************************************************************)
EXTENDS Integers, Sequences, FiniteSets, TLC

VARIABLES heap, bufs, rc, arrays, root, obs, prom, dec, xml

vars == <<heap, bufs, rc, arrays, root, obs, prom, dec, xml>>

(* the records of the promise helpers, of the text decoder and of the XML  *)
(* reader, which no operation on predicates touches                        *)
others == <<prom, dec, xml>>

(***************************************************************************)
(* Bounds of the model.                                                    *)
(***************************************************************************)
MaxArgs == 2
MaxClones == 1

(***************************************************************************)
(* Dynamic values.  Every value is a record [t, v] with a natural or       *)
(* integer payload: the number itself, an index into StrTab, or the index  *)
(* of an object, function, array or predicate node.                        *)
(***************************************************************************)
JS(t, v) == [t |-> t, v |-> v]

JS_UNDEFINED == JS("undefined", 0)
JS_NULL == JS("null", 0)
JS_EXCEPTION == JS("exception", 0)
JS_NAN == JS("float64", 0)
JS_NewBool(b) == JS("bool", IF b THEN 1 ELSE 0)
JS_NewInt32(n) == JS("int", n)
JS_NewInt64(n) == JS("int", n)
JS_NewUint32(n) == JS("int", n)
JS_NewString(i) == JS("string", i)
JS_Object(i) == JS("object", i)
JS_Function(i) == JS("function", i)
JS_Array(i) == JS("array", i)
JS_Predicate(i) == JS("predicate", i)
(* what an uninitialised stack slot may hold *)
JS_GARBAGE == JS("garbage", 0)

js_is_null_or_undefined(value) == value.t \in {"undefined", "null"}
JS_IsObject(value) == value.t \in {"object", "function", "array", "predicate"}
JS_IsFunction(value) == value.t = "function"
JS_IsArray(value) == value.t = "array"
JS_IsNumber(value) == value.t \in {"int", "float64"}
JS_IsException(value) == value.t = "exception"

(***************************************************************************)
(* Byte strings.  StrTab holds the string values of the model; a byte is   *)
(* a natural.  97 98 99 are a b c, 116 is t, 195 169 is the two-byte UTF-8 *)
(* form of U+00E9.                                                         *)
(***************************************************************************)
StrTab ==
  << <<>>, <<97>>, <<97, 98>>, <<98>>, <<99, 97, 98>>, <<99, 97, 116>>,
     <<195, 169>>, <<97, 98, 99>> >>

Digit(d) == 48 + d

RECURSIVE Decimal(_)
Decimal(n) == IF n < 10 THEN <<Digit(n)>> ELSE Decimal(n \div 10) \o <<Digit(n % 10)>>

(* JS_ToCStringLen: the text of a value *)
JS_ToCStringLen(value) ==
  CASE value.t = "string" -> StrTab[value.v]
    [] value.t = "int" -> IF value.v < 0 THEN <<45>> \o Decimal(0 - value.v) ELSE Decimal(value.v)
    [] value.t = "bool" -> IF value.v = 1 THEN <<116, 114, 117, 101>> ELSE <<102, 97, 108, 115, 101>>
    [] value.t = "undefined" -> <<117, 110, 100, 101, 102, 105, 110, 101, 100>>
    [] value.t = "null" -> <<110, 117, 108, 108>>
    [] value.t = "float64" -> <<78, 97, 78>>
    [] OTHER -> <<>>

(* js_input_chars: the byte input made from an argument *)
js_input_chars(value) == JS_ToCStringLen(value)

(* unicode_from_utf8 for one- and two-byte sequences: <<code point, bytes used>> *)
unicode_from_utf8(p) ==
  IF p[1] < 128 THEN <<p[1], 1>>
  ELSE IF p[1] >= 192 /\ p[1] < 224 /\ Len(p) >= 2
       THEN <<(p[1] - 192) * 64 + (p[2] - 128), 2>>
       ELSE <<65533, 1>>

RECURSIVE utf8_to_unicode(_)
utf8_to_unicode(str) ==
  IF str = <<>> THEN <<>>
  ELSE LET cp == unicode_from_utf8(str)
       IN <<cp[1]>> \o utf8_to_unicode(SubSeq(str, cp[2] + 1, Len(str)))

(***************************************************************************)
(* Conversions of quickjs used by the evaluator.                           *)
(***************************************************************************)
(* JS_ToBool: 1, 0, or -1 for an exception *)
JS_ToBool(value) ==
  CASE value.t = "exception" -> 0 - 1
    [] value.t \in {"undefined", "null"} -> 0
    [] value.t = "bool" -> value.v
    [] value.t = "int" -> IF value.v = 0 THEN 0 ELSE 1
    [] value.t = "float64" -> IF value.v = 0 THEN 0 ELSE 1
    [] value.t = "string" -> IF StrTab[value.v] = <<>> THEN 0 ELSE 1
    [] OTHER -> 1

(* JS_ToFloat64: an integer stays itself, everything that is not a       *)
(* number the model can compute with becomes NaN                          *)
JS_ToFloat64(value) ==
  CASE value.t = "int" -> value
    [] value.t = "bool" -> JS_NewInt32(value.v)
    [] value.t = "null" -> JS_NewInt32(0)
    [] value.t = "float64" -> value
    [] value.t = "string" /\ StrTab[value.v] = <<>> -> JS_NewInt32(0)
    [] OTHER -> JS_NAN

(* JS_ToInt64: NaN and failures give 0 *)
JS_ToInt64(value) ==
  LET d == JS_ToFloat64(value) IN IF d.t = "int" THEN d.v ELSE 0

(***************************************************************************)
(* Node kinds, in the order of the name table of predicate_typename.      *)
(***************************************************************************)
PREDICATE_TYPE == 0
PREDICATE_CHARSET == 1
PREDICATE_STRING == 2
PREDICATE_NOTNOT == 3
PREDICATE_NOT == 4
PREDICATE_BNOT == 5
PREDICATE_SQRT == 6
PREDICATE_ADD == 7
PREDICATE_SUB == 8
PREDICATE_MUL == 9
PREDICATE_DIV == 10
PREDICATE_MOD == 11
PREDICATE_BOR == 12
PREDICATE_BAND == 13
PREDICATE_POW == 14
PREDICATE_ATAN2 == 15
PREDICATE_OR == 16
PREDICATE_AND == 17
PREDICATE_XOR == 18
PREDICATE_REGEXP == 19
PREDICATE_INSTANCEOF == 20
PREDICATE_PROTOTYPEIS == 21
PREDICATE_EQUAL == 22
PREDICATE_PROPERTY == 23
PREDICATE_MEMBER == 24
PREDICATE_SHIFT == 25
PREDICATE_FUNCTION == 26

UnaryIds == {PREDICATE_NOTNOT, PREDICATE_NOT, PREDICATE_BNOT, PREDICATE_SQRT}
BinaryIds == PREDICATE_ADD .. PREDICATE_ATAN2
BooleanIds == {PREDICATE_OR, PREDICATE_AND, PREDICATE_XOR}
CompareIds == {PREDICATE_INSTANCEOF, PREDICATE_PROTOTYPEIS, PREDICATE_EQUAL}

(* the all-zero value: tag 0 is the integer tag *)
JS_ZERO == JS_NewInt32(0)

(* a Predicate struct filled with zero bytes (js_mallocz, memset) *)
ZeroPredicate ==
  [id |-> 0, live |-> TRUE, flags |-> 0, set |-> 0, len |-> 0, chars |-> 0, str |-> 0,
   predicate |-> JS_ZERO, left |-> JS_ZERO, right |-> JS_ZERO,
   npredicates |-> 0, predicates |-> <<>>,
   source |-> 0, reflags |-> 0, bytecode |-> 0,
   atom |-> 0, object |-> JS_ZERO, n |-> 0,
   func |-> JS_ZERO, this_val |-> JS_ZERO, arity |-> 0]

(* js_predicate_data: the node behind a predicate object, 0 for any other value *)
js_predicate_data(value) == IF value.t = "predicate" THEN value.v ELSE 0

predicate_is(value) == js_predicate_data(value) # 0

predicate_callable(value) == predicate_is(value) \/ JS_IsFunction(value)

(***************************************************************************)
(* The script world the model runs in: two property names, plain objects, *)
(* callables, and a tiny regular-expression engine.                        *)
(***************************************************************************)
Atoms == {1, 2}

(* object 1 is {x: 3, y: 0} with prototype object 2; object 2 is {} *)
ObjProps == << [a \in Atoms |-> IF a = 1 THEN JS_NewInt32(3) ELSE JS_NewInt32(0)],
               [a \in Atoms |-> JS_UNDEFINED] >>
ObjProto == <<2, 0>>

JS_HasProperty(obj, atom) ==
  obj.t = "object" /\ atom \in Atoms /\ ObjProps[obj.v][atom] # JS_UNDEFINED

JS_GetProperty(obj, atom) ==
  IF obj.t = "object" /\ atom \in Atoms THEN ObjProps[obj.v][atom] ELSE JS_UNDEFINED

(* JS_ValueToAtom: an index key is its own atom; no other key is a name of  *)
(* the model's objects                                                      *)
JS_ValueToAtom(value) == IF value.t = "int" /\ value.v \in Atoms THEN value.v ELSE 0

(* the prototype pointer of a value, 0 when it has none *)
JS_GetPrototype(value) == IF value.t = "object" THEN ObjProto[value.v] ELSE 0

(* function 3 is a constructor whose prototype property is object 2 *)
JS_IsInstanceOf(value, ctor) ==
  IF ~JS_IsFunction(ctor) THEN 0 - 1
  ELSE IF value.t = "object" /\ ctor.v = 3 /\ ObjProto[value.v] = 2 THEN 1 ELSE 0

js_value_equals(a, b) == a = b

(* js_value_type: one bit per dynamic type, in the order of the flag names *)
js_value_type(value) ==
  CASE value.t = "undefined" -> 1
    [] value.t = "null" -> 2
    [] value.t = "bool" -> 4
    [] value.t = "int" -> 8
    [] value.t \in {"object", "predicate"} -> 16
    [] value.t = "string" -> 32
    [] value.t = "float64" -> 1024
    [] value.t = "function" -> 2048
    [] value.t = "array" -> 4096
    [] OTHER -> 0

RECURSIVE BitAnd(_, _)
BitAnd(a, b) ==
  IF a = 0 \/ b = 0 THEN 0
  ELSE (a % 2) * (b % 2) + 2 * BitAnd(a \div 2, b \div 2)

RECURSIVE BitOr(_, _)
BitOr(a, b) ==
  IF a = 0 THEN b ELSE IF b = 0 THEN a
  ELSE (IF a % 2 = 1 \/ b % 2 = 1 THEN 1 ELSE 0) + 2 * BitOr(a \div 2, b \div 2)

RECURSIVE BitXorNat(_, _)
BitXorNat(a, b) ==
  IF a = 0 THEN b ELSE IF b = 0 THEN a
  ELSE ((a + b) % 2) + 2 * BitXorNat(a \div 2, b \div 2)

(* ~x on a two's-complement integer *)
BitNot64(x) == 0 - x - 1

(* x ^ y on two's-complement integers, by ~a ^ b = ~(a ^ b) *)
BitXor64(x, y) ==
  CASE x >= 0 /\ y >= 0 -> BitXorNat(x, y)
    [] x < 0 /\ y >= 0 -> BitNot64(BitXorNat(BitNot64(x), y))
    [] x >= 0 /\ y < 0 -> BitNot64(BitXorNat(x, BitNot64(y)))
    [] OTHER -> BitXorNat(BitNot64(x), BitNot64(y))

(* JS_Call on the model's callables: function 1 returns the number of      *)
(* arguments it was given, function 2 its first argument, function 3       *)
(* nothing; calling anything else throws                                   *)
JS_Call(func, this_val, argv) ==
  IF ~JS_IsFunction(func) THEN JS_EXCEPTION
  ELSE CASE func.v = 1 -> JS_NewInt32(Len(argv))
         [] func.v = 2 -> IF Len(argv) > 0 THEN argv[1] ELSE JS_UNDEFINED
         [] OTHER -> JS_UNDEFINED

(***************************************************************************)
(* Regular expressions.  The engine is outside the repository; the model  *)
(* uses a small one: a pattern is a row of single characters, each         *)
(* optionally a capture group "(c)" and optionally followed by "?".        *)
(***************************************************************************)
IsLetter(b) == b >= 97 /\ b <= 122

RECURSIVE RegexpValid(_)
RegexpValid(src) ==
  IF src = <<>> THEN TRUE
  ELSE IF IsLetter(src[1])
       THEN IF Len(src) >= 2 /\ src[2] = 63
            THEN RegexpValid(SubSeq(src, 3, Len(src)))
            ELSE RegexpValid(Tail(src))
  ELSE IF src[1] = 40 /\ Len(src) >= 3 /\ IsLetter(src[2]) /\ src[3] = 41
       THEN IF Len(src) >= 4 /\ src[4] = 63
            THEN RegexpValid(SubSeq(src, 5, Len(src)))
            ELSE RegexpValid(SubSeq(src, 4, Len(src)))
  ELSE FALSE

RECURSIVE RegexpItems(_)
RegexpItems(src) ==
  IF src = <<>> THEN <<>>
  ELSE IF IsLetter(src[1])
       THEN IF Len(src) >= 2 /\ src[2] = 63
            THEN <<[c |-> src[1], grp |-> FALSE, opt |-> TRUE]>> \o RegexpItems(SubSeq(src, 3, Len(src)))
            ELSE <<[c |-> src[1], grp |-> FALSE, opt |-> FALSE]>> \o RegexpItems(Tail(src))
  ELSE IF Len(src) >= 4 /\ src[4] = 63
       THEN <<[c |-> src[2], grp |-> TRUE, opt |-> TRUE]>> \o RegexpItems(SubSeq(src, 5, Len(src)))
       ELSE <<[c |-> src[2], grp |-> TRUE, opt |-> FALSE]>> \o RegexpItems(SubSeq(src, 4, Len(src)))

(* lre_get_capture_count: the whole match and one per group *)
lre_get_capture_count(code) ==
  1 + Cardinality({i \in 1..Len(RegexpItems(code)) : RegexpItems(code)[i].grp})

RECURSIVE MatchItems(_, _, _)
MatchItems(items, input, pos) ==
  IF items = <<>> THEN [ok |-> TRUE, caps |-> <<>>, end |-> pos]
  ELSE LET it == Head(items)
           hit == pos < Len(input) /\ input[pos + 1] = it.c
           take == MatchItems(Tail(items), input, pos + 1)
           skip == MatchItems(Tail(items), input, pos)
       IN IF hit /\ take.ok
          THEN [ok |-> TRUE,
                caps |-> (IF it.grp THEN << <<pos, pos + 1>> >> ELSE <<>>) \o take.caps,
                end |-> take.end]
          ELSE IF it.opt /\ skip.ok
          THEN [ok |-> TRUE,
                caps |-> (IF it.grp THEN << <<>> >> ELSE <<>>) \o skip.caps,
                end |-> skip.end]
          ELSE [ok |-> FALSE, caps |-> <<>>, end |-> pos]

(* lre_exec from offset zero: result, and per group <<start, end>> or <<>> *)
lre_exec(code, input) ==
  LET m == MatchItems(RegexpItems(code), input, 0)
  IN IF m.ok THEN [result |-> 1, capture |-> << <<0, m.end>> >> \o m.caps]
     ELSE [result |-> 0, capture |-> <<>>]

(***************************************************************************)
(* Double arithmetic on the values the model computes with: integers are  *)
(* exact, NaN is float64 0, and every other non-integral or out-of-range   *)
(* double is the one value JS_INEXACT.                                     *)
(***************************************************************************)
JS_INEXACT == JS("float64", 1)

(* JS_NewFloat64 stores an integral double as an integer *)
JS_NewFloat64(d) == d

Abs(x) == IF x < 0 THEN 0 - x ELSE x

RECURSIVE IntPow(_, _)
IntPow(b, e) == IF e = 0 THEN 1 ELSE b * IntPow(b, e - 1)

c_sqrt(d) ==
  IF d.t # "int" THEN d
  ELSE IF d.v < 0 THEN JS_NAN
  ELSE IF \E k \in 0..d.v : k * k = d.v
       THEN JS_NewInt32(CHOOSE k \in 0..d.v : k * k = d.v)
       ELSE JS_INEXACT

(* the inner switch of the arithmetic case *)
binary_op(id, left, right) ==
  IF left = JS_NAN \/ right = JS_NAN THEN
    (IF id \in {PREDICATE_BOR, PREDICATE_BAND} THEN JS_INEXACT ELSE JS_NAN)
  ELSE IF left.t # "int" \/ right.t # "int" THEN JS_INEXACT
  ELSE LET l == left.v
           r == right.v
       IN CASE id = PREDICATE_ADD -> JS_NewInt32(l + r)
            [] id = PREDICATE_SUB -> JS_NewInt32(l - r)
            [] id = PREDICATE_MUL -> JS_NewInt32(l * r)
            [] id = PREDICATE_DIV ->
                 IF r = 0 THEN (IF l = 0 THEN JS_NAN ELSE JS_INEXACT)
                 ELSE IF Abs(l) % Abs(r) = 0
                      THEN JS_NewInt32((IF (l < 0) = (r < 0) THEN 1 ELSE 0 - 1) * (Abs(l) \div Abs(r)))
                      ELSE JS_INEXACT
            [] id = PREDICATE_MOD ->
                 IF r = 0 THEN JS_NAN
                 ELSE JS_NewInt32((IF l < 0 THEN 0 - 1 ELSE 1) * (Abs(l) % Abs(r)))
            [] id = PREDICATE_BOR ->
                 IF l >= 0 /\ r >= 0 THEN JS_NewInt32(BitOr(l, r)) ELSE JS_INEXACT
            [] id = PREDICATE_BAND ->
                 IF l >= 0 /\ r >= 0 THEN JS_NewInt32(BitAnd(l, r)) ELSE JS_INEXACT
            [] id = PREDICATE_POW ->
                 IF r >= 0 /\ r <= 4 /\ Abs(l) <= 16 THEN JS_NewInt32(IntPow(l, r)) ELSE JS_INEXACT
            [] id = PREDICATE_ATAN2 ->
                 IF l = 0 /\ r >= 0 THEN JS_NewInt32(0) ELSE JS_INEXACT
            [] OTHER -> JS_NAN

(***************************************************************************)
(* The evaluator.  An evaluation threads a record s:                       *)
(*   h, b, a   the heap, the buffers and the array sinks                   *)
(*   c, v, p   the argument cursor: count, arguments, read index           *)
(*   d         depth of nested predicate_call cursors                      *)
(*   log       what was done, in order                                     *)
(*   uf        an argument was requested past the end of the cursor        *)
(*   crash     the process aborted (assert) or ran undefined behaviour     *)
(*   g, ub     what an uninitialised slot holds, what an execution of an   *)
(*             unset compiled form answers                                 *)
(* Every step returns [ret, s].                                            *)
(***************************************************************************)
Ev(e, d, n, val, argv, cap) == [e |-> e, d |-> d, n |-> n, val |-> val, args |-> argv, cap |-> cap]

Ret(ret, s) == [ret |-> ret, s |-> s]

Logged(s, e, n, val, argv, cap) == [s EXCEPT !.log = Append(@, Ev(e, s.d, n, val, argv, cap))]

(* js_arguments_new *)
js_arguments_new(argv) == [c |-> Len(argv), v |-> argv, p |-> 0]

(* js_arguments_shift: the argument at the read index, which advances *)
js_arguments_shift(s) ==
  IF s.p < s.c
  THEN Ret(s.v[s.p + 1], [Logged(s, "shift", s.p, s.v[s.p + 1], <<>>, <<>>) EXCEPT !.p = @ + 1])
  ELSE Ret(JS_UNDEFINED, [s EXCEPT !.uf = TRUE])

(* JS_FreeValue during an evaluation: one reference to the value is given *)
(* up                                                                      *)
JS_FreeValue(s, value) == Logged(s, "free", 0, value, <<>>, <<>>)

(* the input js_input_chars makes from a value holds the value and its    *)
(* bytes until input_buffer_free gives them back                          *)
InputHeld(s, value) == Logged(s, "input", 0, value, <<>>, <<>>)

input_buffer_free(s, value) == Logged(s, "input_free", 0, value, <<>>, <<>>)

(* js_arguments_shiftn: advance by n, at most to the end *)
js_arguments_shiftn(s, n) ==
  [s EXCEPT !.p = IF s.p + n <= s.c THEN s.p + n ELSE s.c,
            !.uf = s.uf \/ (s.p + n > s.c)]

(* the address the allocator hands out for a buffer of node pr: its       *)
(* literal (slot 0) or its cache (slot 1).  Every allocation gets an       *)
(* address of its own; which one does not matter.                          *)
BufAddr(pr, slot) == 2 * pr + slot

(* a new buffer holding data at address ptr *)
BufAlloc(b, ptr, data) ==
  [q \in DOMAIN b \cup {ptr} |-> IF q = ptr THEN [alive |-> TRUE, data |-> data] ELSE b[q]]

BufFree(b, ptr) == IF ptr = 0 THEN b ELSE [b EXCEPT ![ptr].alive = FALSE]

BufData(b, ptr) == IF ptr = 0 THEN <<>> ELSE b[ptr].data

SeqRange(q) == {q[i] : i \in 1..Len(q)}

RECURSIVE predicate_eval(_, _)
RECURSIVE predicate_value(_, _)
RECURSIVE predicate_call(_, _, _)

eval_type(s, pr) ==
  LET a == js_arguments_shift(s)
  IN Ret(JS_NewBool(BitAnd(js_value_type(a.ret), a.s.h[pr].flags) # 0), a.s)

(* the Charset case answering whether some code point is in the set *)
eval_charset_some(s, pr) ==
  LET a == js_arguments_shift(s)
      input == utf8_to_unicode(js_input_chars(a.ret))
      chars == utf8_to_unicode(SubSeq(BufData(a.s.b, a.s.h[pr].set), 1, a.s.h[pr].len))
  IN Ret(JS_NewInt32(IF input = <<>> \/ SeqRange(input) \cap SeqRange(chars) # {} THEN 1 ELSE 0),
         a.s)

(* the Charset case giving up the literal once it is decoded *)
eval_charset_decoded_only(s, pr) ==
  LET a == js_arguments_shift(s)
      input == js_input_chars(a.ret)
      node == a.s.h[pr]
      decoded == utf8_to_unicode(SubSeq(BufData(a.s.b, node.set), 1, node.len))
      s1 == IF node.chars = 0 /\ decoded # <<>>
            THEN [a.s EXCEPT !.b = BufAlloc(@, BufAddr(pr, 1), decoded),
                             !.h[pr].chars = BufAddr(pr, 1),
                             !.h[pr].len = 0]
            ELSE a.s
      chars == BufData(s1.b, s1.h[pr].chars)
  IN Ret(JS_NewInt32(IF SeqRange(utf8_to_unicode(input)) \subseteq SeqRange(chars) THEN 1 ELSE 0), s1)

eval_charset(s, pr) ==
  LET a == js_arguments_shift(s)
      input == js_input_chars(a.ret)
      s0 == InputHeld(a.s, a.ret)
      node == s0.h[pr]
      decoded == utf8_to_unicode(SubSeq(BufData(s0.b, node.set), 1, node.len))
      s1 == IF node.chars = 0 /\ decoded # <<>>
            THEN [s0 EXCEPT !.b = BufAlloc(@, BufAddr(pr, 1), decoded),
                            !.h[pr].chars = BufAddr(pr, 1)]
            ELSE s0
      chars == BufData(s1.b, s1.h[pr].chars)
  IN Ret(JS_NewInt32(IF SeqRange(utf8_to_unicode(input)) \subseteq SeqRange(chars) THEN 1 ELSE 0),
         input_buffer_free(s1, a.ret))

(* the String case comparing the whole argument with the literal *)
eval_string_whole(s, pr) ==
  LET a == js_arguments_shift(s)
  IN Ret(IF js_input_chars(a.ret) = SubSeq(BufData(a.s.b, a.s.h[pr].str), 1, a.s.h[pr].len)
         THEN JS_NewInt32(1) ELSE JS_UNDEFINED, a.s)

eval_string(s, pr) ==
  LET a == js_arguments_shift(s)
      input == js_input_chars(a.ret)
      node == a.s.h[pr]
  IN Ret(IF Len(input) >= node.len
            /\ SubSeq(input, 1, node.len) = SubSeq(BufData(a.s.b, node.str), 1, node.len)
         THEN JS_NewInt32(1) ELSE JS_UNDEFINED, InputHeld(a.s, a.ret))

(* the operation of the four unary kinds on the resolved operand *)
unary_op(id, value) ==
  CASE id = PREDICATE_NOTNOT -> JS_NewBool(JS_ToBool(value) # 0)
    [] id = PREDICATE_NOT -> JS_NewBool(JS_ToBool(value) = 0)
    [] id = PREDICATE_BNOT -> JS_NewInt64(BitNot64(JS_ToInt64(value)))
    [] OTHER -> JS_NewFloat64(c_sqrt(JS_ToFloat64(value)))

eval_unary(s, pr) ==
  LET x == predicate_value(s, s.h[pr].predicate)
  IN Ret(unary_op(s.h[pr].id, x.ret), x.s)

(* one operand of an arithmetic node: an unset operand is taken from the  *)
(* cursor, and the value is then resolved by predicate_value              *)
binary_operand(s, value) ==
  LET a == IF js_is_null_or_undefined(value) THEN js_arguments_shift(s) ELSE Ret(value, s)
  IN predicate_value(a.s, a.ret)

(* the arithmetic case with the right operand resolved first *)
eval_binary_right_first(s, pr) ==
  LET r == binary_operand(s, s.h[pr].right)
      l == binary_operand(r.s, s.h[pr].left)
  IN Ret(JS_NewFloat64(binary_op(s.h[pr].id, JS_ToFloat64(l.ret), JS_ToFloat64(r.ret))), l.s)

eval_binary(s, pr) ==
  LET l == binary_operand(s, s.h[pr].left)
      r == binary_operand(l.s, s.h[pr].right)
  IN Ret(JS_NewFloat64(binary_op(s.h[pr].id, JS_ToFloat64(l.ret), JS_ToFloat64(r.ret))), r.s)

(* the loops of Or, And and Xor, from operand i on; ret is the value so far *)
RECURSIVE eval_or(_, _, _, _)
eval_or(s, pr, i, ret) ==
  IF i > s.h[pr].npredicates THEN Ret(ret, s)
  ELSE LET x == predicate_value(s, s.h[pr].predicates[i])
       IN IF JS_ToBool(x.ret) # 0 THEN x ELSE eval_or(x.s, pr, i + 1, x.ret)

RECURSIVE eval_and_nobreak(_, _, _, _)
eval_and_nobreak(s, pr, i, ret) ==
  IF i > s.h[pr].npredicates THEN Ret(ret, s)
  ELSE LET x == predicate_value(s, s.h[pr].predicates[i])
       IN eval_and_nobreak(x.s, pr, i + 1, x.ret)

RECURSIVE eval_and(_, _, _, _)
eval_and(s, pr, i, ret) ==
  IF i > s.h[pr].npredicates THEN Ret(ret, s)
  ELSE LET x == predicate_value(s, s.h[pr].predicates[i])
       IN IF JS_ToBool(x.ret) = 0 THEN x ELSE eval_and(x.s, pr, i + 1, x.ret)

RECURSIVE eval_xor(_, _, _, _)
eval_xor(s, pr, i, r) ==
  IF i > s.h[pr].npredicates THEN Ret(JS_NewInt64(r), s)
  ELSE LET x == predicate_value(s, s.h[pr].predicates[i])
       IN eval_xor(x.s, pr, i + 1, BitXor64(r, JS_ToInt64(x.ret)))

(* regexp_compile: the compiled form of a pattern, none when it is malformed *)
regexp_compile(source) ==
  IF RegexpValid(source) THEN [ok |-> TRUE, code |-> source] ELSE [ok |-> FALSE, code |-> <<>>]

(* predicate_regexp_compile without its second assert: a node that holds  *)
(* a compiled form gets another one                                        *)
predicate_regexp_compile_again(s, pr) ==
  LET bytecode == regexp_compile(SubSeq(BufData(s.b, s.h[pr].source), 1, s.h[pr].len))
      ptr == IF s.h[pr].bytecode = 0 THEN BufAddr(pr, 1) ELSE s.h[pr].bytecode + 2
  IN IF s.h[pr].id # PREDICATE_REGEXP THEN Ret(0, [s EXCEPT !.crash = TRUE])
     ELSE IF bytecode.ok
     THEN Ret(lre_get_capture_count(bytecode.code),
              [s EXCEPT !.b = BufAlloc(@, ptr, bytecode.code), !.h[pr].bytecode = ptr])
     ELSE Ret(0, s)

(* predicate_regexp_compile: ret is the capture count, 0 after a failed     *)
(* compilation; both asserts abort                                          *)
predicate_regexp_compile(s, pr) ==
  IF s.h[pr].id # PREDICATE_REGEXP \/ s.h[pr].bytecode # 0
  THEN Ret(0, [s EXCEPT !.crash = TRUE])
  ELSE LET bytecode == regexp_compile(SubSeq(BufData(s.b, s.h[pr].source), 1, s.h[pr].len))
       IN IF bytecode.ok
          THEN Ret(lre_get_capture_count(bytecode.code),
                   [s EXCEPT !.b = BufAlloc(@, BufAddr(pr, 1), bytecode.code),
                             !.h[pr].bytecode = BufAddr(pr, 1)])
          ELSE Ret(0, s)

(* predicate_regexp_capture: start and end offset per group, zero filled *)
predicate_regexp_capture(capture, capture_count) ==
  [i \in 1..capture_count |-> IF capture[i] # <<>> THEN capture[i] ELSE <<0, 0>>]

(* the array sink after the loop: its length, and [start, end] or the      *)
(* null marker <<>> at each index                                          *)
regexp_sink(capture, capture_count) ==
  [length |-> capture_count, elems |-> [i \in 1..capture_count |-> capture[i]]]

eval_regexp(s, pr) ==
  LET a == js_arguments_shift(s)
      re == a.ret
      input == js_input_chars(re)
      s0 == InputHeld(a.s, re)
      cc == IF s0.h[pr].bytecode = 0 THEN predicate_regexp_compile(s0, pr) ELSE Ret(0, s0)
      capture_count == cc.ret
      bytecode == cc.s.h[pr].bytecode
      x == IF bytecode = 0
           THEN [result |-> IF s.ub = 1 THEN 1 ELSE 0, capture |-> <<>>]
           ELSE lre_exec(BufData(cc.s.b, bytecode), input)
      s1 == [Logged(cc.s, "lre_exec", bytecode, re, <<>>, x.capture)
               EXCEPT !.crash = cc.s.crash \/ (bytecode = 0 /\ s.ub = 2)]
      e == js_arguments_shift(s1)
      arg == e.ret
      s2 == IF x.result # 0 /\ s1.c > 1
            THEN IF JS_IsFunction(arg)
                 THEN Logged(e.s, "call", arg.v, JS_NULL, <<JS("arraybuffer", capture_count), re>>,
                             predicate_regexp_capture(x.capture, capture_count))
                 ELSE IF JS_IsArray(arg)
                 THEN [e.s EXCEPT !.a[arg.v] = regexp_sink(x.capture, capture_count)]
                 ELSE e.s
            ELSE s1
  IN Ret(JS_NewBool(x.result # 0), s2)

eval_compare(s, pr) ==
  LET a == js_arguments_shift(s)
      id == s.h[pr].id
      ref == s.h[pr].predicate
  IN Ret(CASE id = PREDICATE_INSTANCEOF -> JS_NewBool(JS_IsInstanceOf(a.ret, ref) # 0)
           [] id = PREDICATE_PROTOTYPEIS ->
                JS_NewBool(JS_GetPrototype(a.ret) = (IF ref.t = "object" THEN ref.v ELSE 0))
           [] OTHER -> JS_NewBool(js_value_equals(a.ret, ref)),
         a.s)

(* the Property case with the post-filter resolved on the cursor in       *)
(* progress instead of called with the read value                         *)
eval_property_shared(s, pr) ==
  LET a == js_arguments_shift(s)
      obj == a.ret
      filter == s.h[pr].predicate
  IN IF JS_IsObject(obj)
     THEN LET ret == JS_GetProperty(obj, s.h[pr].atom)
              s1 == Logged(a.s, "getprop", s.h[pr].atom, obj, <<>>, <<>>)
          IN IF ~js_is_null_or_undefined(filter) /\ predicate_callable(filter)
             THEN predicate_value(s1, filter)
             ELSE Ret(ret, s1)
     ELSE Ret(JS_EXCEPTION, Logged(a.s, "throw", pr, obj, <<>>, <<>>))

eval_property(s, pr) ==
  LET a == js_arguments_shift(s)
      obj == a.ret
      filter == s.h[pr].predicate
  IN IF JS_IsObject(obj)
     THEN LET ret == JS_GetProperty(obj, s.h[pr].atom)
              s1 == Logged(a.s, "getprop", s.h[pr].atom, obj, <<>>, <<>>)
          IN IF ~js_is_null_or_undefined(filter) /\ predicate_callable(filter)
             THEN predicate_call(s1, filter, <<ret>>)
             ELSE Ret(ret, s1)
     ELSE Ret(JS_EXCEPTION, Logged(a.s, "throw", pr, obj, <<>>, <<>>))

eval_member(s, pr) ==
  LET a == js_arguments_shift(s)
      atom == JS_ValueToAtom(a.ret)
      obj == s.h[pr].object
  IN Ret(IF JS_HasProperty(obj, atom) THEN JS_GetProperty(obj, atom) ELSE JS_UNDEFINED,
         JS_FreeValue(a.s, a.ret))

(* the Shift case moving the read index to n instead of by n *)
eval_shift_absolute(s, pr) ==
  IF s.h[pr].n <= s.c
  THEN predicate_value([s EXCEPT !.p = s.h[pr].n], s.h[pr].predicate)
  ELSE Ret(JS_UNDEFINED, s)

eval_shift(s, pr) ==
  IF s.h[pr].n <= s.c
  THEN predicate_value(js_arguments_shiftn(s, s.h[pr].n), s.h[pr].predicate)
  ELSE Ret(JS_UNDEFINED, s)

(* the argument loop of the Function case: the index advances in the body  *)
(* and in the loop header                                                  *)
RECURSIVE function_args(_, _, _, _)
function_args(s, pr, i, argv) ==
  IF i >= s.h[pr].arity THEN Ret(argv, s)
  ELSE LET a == js_arguments_shift(s)
       IN function_args(a.s, pr, (i + 1) + 1, [argv EXCEPT ![i + 1] = a.ret])

eval_function(s, pr) ==
  LET f == function_args(s, pr, 0, [j \in 1..s.h[pr].arity |-> s.g])
      node == s.h[pr]
  IN Ret(JS_Call(node.func, node.this_val, f.ret),
         Logged(f.s, "call", node.func.v, node.this_val, f.ret, <<>>))

predicate_eval(s0, pr) ==
  LET s == Logged(s0, "eval", pr, JS_UNDEFINED, <<>>, <<>>)
      id == s.h[pr].id
  IN CASE id = PREDICATE_TYPE -> eval_type(s, pr)
       [] id = PREDICATE_CHARSET -> eval_charset(s, pr)
       [] id = PREDICATE_STRING -> eval_string(s, pr)
       [] id \in UnaryIds -> eval_unary(s, pr)
       [] id \in BinaryIds -> eval_binary(s, pr)
       [] id = PREDICATE_OR -> eval_or(s, pr, 1, JS_UNDEFINED)
       [] id = PREDICATE_AND -> eval_and(s, pr, 1, JS_UNDEFINED)
       [] id = PREDICATE_XOR -> eval_xor(s, pr, 1, 0)
       [] id = PREDICATE_REGEXP -> eval_regexp(s, pr)
       [] id \in CompareIds -> eval_compare(s, pr)
       [] id = PREDICATE_PROPERTY -> eval_property(s, pr)
       [] id = PREDICATE_MEMBER -> eval_member(s, pr)
       [] id = PREDICATE_SHIFT -> eval_shift(s, pr)
       [] id = PREDICATE_FUNCTION -> eval_function(s, pr)
       [] OTHER -> Ret(JS_UNDEFINED, [s EXCEPT !.crash = TRUE])

(* predicate_call: a predicate gets a fresh cursor over argv, a callable   *)
(* is invoked with argv                                                    *)
predicate_call(s, value, argv) ==
  IF predicate_is(value)
  THEN LET r == predicate_eval([s EXCEPT !.c = Len(argv), !.v = argv, !.p = 0, !.d = @ + 1],
                               js_predicate_data(value))
       IN Ret(r.ret, [r.s EXCEPT !.c = s.c, !.v = s.v, !.p = s.p, !.d = s.d])
  ELSE IF JS_IsFunction(value)
  THEN Ret(JS_Call(value, JS_UNDEFINED, argv), Logged(s, "call", value.v, JS_UNDEFINED, argv, <<>>))
  ELSE Ret(JS_UNDEFINED, s)

(* predicate_value: a predicate continues on the cursor in progress, a     *)
(* callable is called with the cursor's count and argument vector, and     *)
(* any other value is returned as it is                                    *)
(* predicate_value starting a nested predicate on a cursor of its own *)
predicate_value_fresh(s, value) ==
  IF predicate_callable(value) THEN predicate_call(s, value, s.v) ELSE Ret(value, s)

predicate_value(s, value) ==
  IF predicate_is(value) THEN predicate_eval(s, js_predicate_data(value))
  ELSE IF JS_IsFunction(value) THEN predicate_call(s, value, s.v)
  ELSE Ret(value, s)

(***************************************************************************)
(* predicate_recursive_num_args.  The first case of its switch reads the   *)
(* unary operand of Type, Charset and String nodes, which have none: what  *)
(* it finds there depends on the build.  pun says, per kind, whether the   *)
(* bytes read look like an unset operand (1) or not (0).                   *)
(***************************************************************************)
Puns == [type : {0, 1}, charset : {0, 1}, string : {0, 1}]

RECURSIVE predicate_recursive_num_args(_, _, _)

(* the count for one operand: 1 when unset, the nested count for a node *)
num_args_operand(h, value, pun) ==
  IF js_is_null_or_undefined(value) THEN 1
  ELSE IF predicate_is(value) THEN predicate_recursive_num_args(h, js_predicate_data(value), pun)
  ELSE 0

RECURSIVE num_args_boolean(_, _, _, _)
num_args_boolean(h, values, i, pun) ==
  IF i > Len(values) THEN 0
  ELSE (IF predicate_is(values[i])
        THEN predicate_recursive_num_args(h, js_predicate_data(values[i]), pun) ELSE 0)
       + num_args_boolean(h, values, i + 1, pun)

predicate_recursive_num_args(h, pr, pun) ==
  LET node == h[pr]
      id == node.id
  IN CASE id = PREDICATE_TYPE -> pun.type
       [] id = PREDICATE_CHARSET -> pun.charset
       [] id = PREDICATE_STRING -> pun.string
       [] id \in UnaryIds \cup CompareIds -> num_args_operand(h, node.predicate, pun)
       [] id \in BinaryIds ->
            num_args_operand(h, node.left, pun) + num_args_operand(h, node.right, pun)
       [] id \in BooleanIds -> num_args_boolean(h, node.predicates, 1, pun)
       [] id = PREDICATE_REGEXP -> 1
       [] id = PREDICATE_PROPERTY ->
            (IF node.atom = 0 THEN 1 ELSE 0) + num_args_operand(h, node.predicate, pun)
       [] id = PREDICATE_MEMBER -> 1
       [] id = PREDICATE_SHIFT -> 1
       [] id = PREDICATE_FUNCTION -> node.arity
       [] OTHER -> 0

(***************************************************************************)
(* Ownership.  fs is [h, b, rc].  A node owns one count of every value it *)
(* holds; a predicate object whose count reaches zero is finalized, which  *)
(* frees its node.                                                         *)
(***************************************************************************)
HasRefCount(value) == value.t \in {"object", "function", "array", "predicate", "atom"}

JS_Atom(a) == JS("atom", a)

JS_DupValue(fs, value) ==
  IF HasRefCount(value) /\ value \in DOMAIN fs.rc THEN [fs EXCEPT !.rc[value] = @ + 1] ELSE fs

RECURSIVE JS_FreeValueRT(_, _)
RECURSIVE predicate_free_rt(_, _)

RECURSIVE js_values_free(_, _, _)
js_values_free(fs, values, i) ==
  IF i > Len(values) THEN fs ELSE js_values_free(JS_FreeValueRT(fs, values[i]), values, i + 1)

RECURSIVE js_values_dup(_, _, _)
js_values_dup(fs, values, i) ==
  IF i > Len(values) THEN fs ELSE js_values_dup(JS_DupValue(fs, values[i]), values, i + 1)

(* the finalizer of a predicate object tears its node down *)
JS_FreeValueRT(fs, value) ==
  IF ~(HasRefCount(value) /\ value \in DOMAIN fs.rc) THEN fs
  ELSE LET f1 == [fs EXCEPT !.rc[value] = @ - 1]
       IN IF f1.rc[value] = 0 /\ value.t = "predicate" /\ f1.h[value.v].live
          THEN predicate_free_rt(f1, value.v)
          ELSE f1

predicate_free_rt(fs, pr) ==
  LET node == fs.h[pr]
      id == node.id
      f1 == CASE id = PREDICATE_CHARSET ->
                   [fs EXCEPT !.b = BufFree(BufFree(@, node.set), node.chars)]
              [] id = PREDICATE_STRING -> [fs EXCEPT !.b = BufFree(@, node.str)]
              [] id \in UnaryIds \cup CompareIds -> JS_FreeValueRT(fs, node.predicate)
              [] id \in BinaryIds -> JS_FreeValueRT(JS_FreeValueRT(fs, node.left), node.right)
              [] id \in BooleanIds -> js_values_free(fs, node.predicates, 1)
              [] id = PREDICATE_REGEXP -> [fs EXCEPT !.b = BufFree(@, node.source)]
              [] id = PREDICATE_PROPERTY ->
                   JS_FreeValueRT(JS_FreeValueRT(fs, JS_Atom(node.atom)), node.predicate)
              [] id = PREDICATE_MEMBER -> JS_FreeValueRT(fs, node.object)
              [] id = PREDICATE_SHIFT -> JS_FreeValueRT(fs, node.predicate)
              [] id = PREDICATE_FUNCTION ->
                   JS_FreeValueRT(JS_FreeValueRT(fs, node.func), node.this_val)
              [] OTHER -> fs
  IN [f1 EXCEPT !.h[pr] = [ZeroPredicate EXCEPT !.live = FALSE]]

(* js_strndup: a new buffer, at address new, with the first len bytes *)
js_strndup(b, new, ptr, len) == BufAlloc(b, new, SubSeq(BufData(b, ptr), 1, len))

(* vector_copy: the copy gets storage of its own, at address new *)
vector_copy(b, new, chars) == IF chars = 0 THEN b ELSE BufAlloc(b, new, BufData(b, chars))

(* js_mallocz of a node: the heap with one more cell, after the highest   *)
(* address in use                                                         *)
HeapTop(h) == CHOOSE q \in DOMAIN h : \A o \in DOMAIN h : o <= q

HeapAlloc(h, node) ==
  [q \in DOMAIN h \cup {HeapTop(h) + 1} |-> IF q \in DOMAIN h THEN h[q] ELSE node]

(* predicate_clone without taking the references it copies *)
predicate_clone_nodup(fs, pr) ==
  [fs EXCEPT !.h = HeapAlloc(@, fs.h[pr])]

(* predicate_clone: the copy is the node appended to the heap *)
predicate_clone(fs, pr) ==
  LET node == fs.h[pr]
      id == node.id
      ret == [ZeroPredicate EXCEPT !.id = id]
      new == BufAddr(HeapTop(fs.h) + 1, 0)
      put(f, r) == [f EXCEPT !.h = HeapAlloc(@, r)]
  IN CASE id = PREDICATE_TYPE -> put(fs, [ret EXCEPT !.flags = node.flags])
       [] id = PREDICATE_CHARSET ->
            LET b1 == js_strndup(fs.b, new, node.set, node.len)
                b2 == vector_copy(b1, new + 1, node.chars)
            IN put([fs EXCEPT !.b = b2],
                   [ret EXCEPT !.len = node.len, !.set = new,
                               !.chars = IF node.chars = 0 THEN 0 ELSE new + 1])
       [] id = PREDICATE_STRING ->
            put([fs EXCEPT !.b = js_strndup(@, new, node.str, node.len)],
                [ret EXCEPT !.len = node.len, !.str = new])
       [] id \in UnaryIds \cup CompareIds ->
            put(JS_DupValue(fs, node.predicate), [ret EXCEPT !.predicate = node.predicate])
       [] id \in BinaryIds ->
            put(JS_DupValue(JS_DupValue(fs, node.left), node.right),
                [ret EXCEPT !.left = node.left, !.right = node.right])
       [] id \in BooleanIds ->
            put(js_values_dup(fs, node.predicates, 1),
                [ret EXCEPT !.npredicates = node.npredicates, !.predicates = node.predicates])
       [] id = PREDICATE_REGEXP ->
            put([fs EXCEPT !.b = js_strndup(@, new, node.source, node.len)],
                [ret EXCEPT !.source = new, !.len = node.len, !.reflags = node.reflags,
                            !.bytecode = 0])
       [] id = PREDICATE_PROPERTY ->
            put(JS_DupValue(JS_DupValue(fs, JS_Atom(node.atom)), node.predicate),
                [ret EXCEPT !.atom = node.atom, !.predicate = node.predicate])
       [] id = PREDICATE_MEMBER ->
            put(JS_DupValue(fs, node.object), [ret EXCEPT !.object = node.object])
       [] id = PREDICATE_SHIFT ->
            put(JS_DupValue(fs, node.predicate),
                [ret EXCEPT !.n = node.n, !.predicate = node.predicate])
       [] id = PREDICATE_FUNCTION ->
            put(JS_DupValue(JS_DupValue(fs, node.func), node.this_val),
                [ret EXCEPT !.func = node.func, !.this_val = node.this_val,
                            !.arity = node.arity])
       [] OTHER -> put(fs, ret)

(***************************************************************************)
(* Text.  A text is a string; dbuf_putstr and dbuf_printf append to it.    *)
(***************************************************************************)
Letters == "abcdefghijklmnopqrstuvwxyz"

(* the character at offset i of a C string, "" for its terminator *)
CharAt(str, i) == IF i >= 0 /\ i < Len(str) THEN SubSeq(str, i + 1, i + 1) ELSE ""

(* dbuf_put_escaped: the bytes as characters, a byte that is not plain     *)
(* text as an escape                                                       *)
RECURSIVE dbuf_put_escaped(_)
dbuf_put_escaped(bytes) ==
  IF bytes = <<>> THEN ""
  ELSE LET c == Head(bytes)
       IN (CASE IsLetter(c) -> CharAt(Letters, c - 97)
             [] c = 40 -> "("
             [] c = 41 -> ")"
             [] c = 63 -> "?"
             [] OTHER -> "\\x" \o ToString(c)) \o dbuf_put_escaped(Tail(bytes))

(* js_value_dump: the text of a value *)
js_value_dump(value) ==
  CASE value.t = "int" -> ToString(value.v)
    [] value.t = "bool" -> IF value.v = 1 THEN "true" ELSE "false"
    [] value.t = "undefined" -> "undefined"
    [] value.t = "null" -> "null"
    [] value.t = "float64" -> "NaN"
    [] value.t = "string" -> "'" \o dbuf_put_escaped(StrTab[value.v]) \o "'"
    [] value.t = "function" -> "function f" \o ToString(value.v) \o "() {}"
    [] value.t = "array" -> "[]"
    [] OTHER -> "[object Object]"

(* JS_AtomToCString: the property names of the model's objects *)
JS_AtomToCString(atom) == CASE atom = 1 -> "x" [] atom = 2 -> "y" [] OTHER -> ""

(* js_value_type_name: the name of the lowest flag set *)
js_value_type_name(flags) ==
  CASE flags % 2 = 1 -> "undefined"
    [] flags % 4 = 2 -> "null"
    [] flags % 8 = 4 -> "boolean"
    [] flags % 16 = 8 -> "int"
    [] flags % 32 = 16 -> "object"
    [] flags % 64 = 32 -> "string"
    [] OTHER -> "unknown"

(***************************************************************************)
(* Parameter names (Arguments): the list v and the index p of the next     *)
(* unused entry; null is the absent list.                                  *)
(***************************************************************************)
NullArguments == [null |-> TRUE, v |-> <<>>, p |-> 0]

(* arguments_alloc: a list seeded with n generated names *)
arguments_alloc(n) == [null |-> FALSE, v |-> [i \in 1..n |-> CharAt(Letters, i - 1)], p |-> 0]

(* arguments_shift: the next unused entry, nothing when all are used *)
arguments_shift(args) ==
  IF args.p < Len(args.v)
  THEN [ret |-> args.v[args.p + 1], args |-> [args EXCEPT !.p = @ + 1], uf |-> FALSE]
  ELSE [ret |-> "", args |-> args, uf |-> TRUE]

(* arguments_push: the list extended with a name, unless it holds it *)
arguments_push(args, name) ==
  IF \E i \in 1..Len(args.v) : args.v[i] = name THEN args
  ELSE [args EXCEPT !.v = Append(@, name)]

(* arguments_dump: the parameter list as a header *)
arguments_dump(args) ==
  LET RECURSIVE join(_)
      join(i) == IF i > Len(args.v) THEN ""
                 ELSE (IF i > 1 THEN ", " ELSE "") \o args.v[i] \o join(i + 1)
  IN "(" \o join(1) \o ")"

(***************************************************************************)
(* Operator precedence, lowest first.                                      *)
(***************************************************************************)
PRECEDENCE_LOGICAL_OR == 6
PRECEDENCE_LOGICAL_AND == 7
PRECEDENCE_BITWISE_OR == 8
PRECEDENCE_BITWISE_XOR == 9
PRECEDENCE_BITWISE_AND == 10
PRECEDENCE_EQUALITY == 11
PRECEDENCE_LESS_GREATER_IN == 12
PRECEDENCE_ADDITIVE == 14
PRECEDENCE_MULTIPLICATIVE == 15
PRECEDENCE_EXPONENTIATION == 16
PRECEDENCE_UNARY == 17
PRECEDENCE_MEMBER_ACCESS == 20

(* predicate_precedence: -1 is the value the assert aborts on *)
predicate_precedence(node) ==
  LET id == node.id
  IN CASE id \in {PREDICATE_STRING, PREDICATE_EQUAL} -> PRECEDENCE_EQUALITY
       [] id = PREDICATE_INSTANCEOF -> PRECEDENCE_LESS_GREATER_IN
       [] id \in UnaryIds -> PRECEDENCE_UNARY
       [] id \in {PREDICATE_ADD, PREDICATE_SUB} -> PRECEDENCE_ADDITIVE
       [] id \in {PREDICATE_MUL, PREDICATE_DIV, PREDICATE_MOD, PREDICATE_ATAN2} ->
            PRECEDENCE_MULTIPLICATIVE
       [] id = PREDICATE_POW -> PRECEDENCE_EXPONENTIATION
       [] id = PREDICATE_BOR -> PRECEDENCE_BITWISE_OR
       [] id = PREDICATE_BAND -> PRECEDENCE_BITWISE_AND
       [] id = PREDICATE_OR -> PRECEDENCE_LOGICAL_OR
       [] id = PREDICATE_AND -> PRECEDENCE_LOGICAL_AND
       [] id = PREDICATE_XOR -> PRECEDENCE_BITWISE_XOR
       [] id \in {PREDICATE_PROPERTY, PREDICATE_MEMBER, PREDICATE_FUNCTION} ->
            PRECEDENCE_MEMBER_ACCESS
       [] OTHER -> 0 - 1

(***************************************************************************)
(* predicate_tosource.  A rendering threads t: the text so far (dbuf), the *)
(* parameter names, whether an assert aborted, and whether a name was      *)
(* asked for when none was left.                                           *)
(***************************************************************************)
Put(t, str) == [t EXCEPT !.dbuf = @ \o str]

RECURSIVE predicate_tosource(_, _, _, _, _)

(* predicate_inspect putting the parentheses around a parameter name too *)
predicate_inspect_parens(h, b, value, t, parens, pun) ==
  LET t1 == IF parens THEN Put(t, "(") ELSE t
      t2 == IF js_is_null_or_undefined(value)
            THEN LET a == arguments_shift(t1.args)
                 IN [Put(t1, a.ret) EXCEPT !.args = a.args, !.uf = @ \/ a.uf]
            ELSE IF predicate_is(value)
            THEN predicate_tosource(h, b, js_predicate_data(value), t1, pun)
            ELSE Put(t1, js_value_dump(value))
  IN IF parens /\ ~predicate_is(value) /\ ~js_is_null_or_undefined(value) THEN t2
     ELSE IF parens THEN Put(t2, ")") ELSE t2

predicate_inspect(h, b, value, t, parens, pun) ==
  IF js_is_null_or_undefined(value)
  THEN LET a == arguments_shift(t.args)
       IN [Put(t, a.ret) EXCEPT !.args = a.args, !.uf = @ \/ a.uf]
  ELSE IF predicate_is(value)
  THEN LET t1 == IF parens THEN Put(t, "(") ELSE t
           t2 == predicate_tosource(h, b, js_predicate_data(value), t1, pun)
       IN IF parens THEN Put(t2, ")") ELSE t2
  ELSE Put(t, js_value_dump(value))

(* whether an operand of a node of precedence prec is put in parentheses;  *)
(* abort when the operand is a node without a precedence                   *)
tosource_parens(h, prec, value) ==
  LET other == js_predicate_data(value)
      o == IF other # 0 THEN predicate_precedence(h[other]) ELSE 0
  IN [parens |-> ~JS_IsNumber(value) /\ ~(other # 0 /\ prec <= o),
      abort |-> other # 0 /\ o = 0 - 1]

(* one operand of a binary or boolean node, after the separator sep *)
tosource_operand(h, b, pr, value, t, sep, pun) ==
  LET q == tosource_parens(h, predicate_precedence(h[pr]), value)
  IN IF q.abort \/ t.abort THEN [t EXCEPT !.abort = TRUE]
     ELSE predicate_inspect(h, b, value, Put(t, sep), q.parens, pun)

(* js_tosource of a post-filter, and the removal of its header when it     *)
(* has the shape "name => name..."                                         *)
tosource_filter(h, b, value, pun) ==
  LET r == IF predicate_is(value)
           THEN predicate_tosource(h, b, js_predicate_data(value),
                                   [dbuf |-> "", args |-> NullArguments, abort |-> FALSE, uf |-> FALSE],
                                   pun)
           ELSE [dbuf |-> js_value_dump(value), args |-> NullArguments, abort |-> FALSE, uf |-> FALSE]
      str == r.dbuf
      slen == Len(str)
      RECURSIVE byte_chrs(_)
      byte_chrs(i) == IF i >= slen \/ CharAt(str, i) \in {" ", "="} THEN i ELSE byte_chrs(i + 1)
      arglen == byte_chrs(0)
      RECURSIVE skip(_)
      skip(i) == IF CharAt(str, i) \in {" ", "=", ">"} THEN skip(i + 1) ELSE i
      i0 == skip(arglen)
      next == CharAt(str, i0 + arglen)
      alnum == next # "" /\ \E k \in 0..35 : CharAt(Letters \o "0123456789", k) = next
  IN [abort |-> r.abort,
      str |-> IF /\ arglen < slen
                 /\ i0 + arglen <= slen
                 /\ SubSeq(str, i0 + 1, i0 + arglen) = SubSeq(str, 1, arglen)
                 /\ ~alnum
              THEN SubSeq(str, i0 + arglen + 1, slen)
              ELSE str]

predicate_tosource(h, b, pr, t0, pun) ==
  LET node == h[pr]
      id == node.id
      args0 == IF t0.args.null
               THEN arguments_alloc(predicate_recursive_num_args(h, pr, pun) + 1)
               ELSE t0.args
      t == [t0 EXCEPT !.args = args0]
      named(name, str) == Put([t EXCEPT !.args = arguments_push(@, name)], str)
      body ==
        CASE id = PREDICATE_TYPE ->
               named("value", "typeof value == " \o js_value_type_name(node.flags))
          [] id = PREDICATE_CHARSET ->
               named("chars", "'" \o dbuf_put_escaped(BufData(b, node.set)) \o "'.indexOf(chars) != -1")
          [] id = PREDICATE_STRING ->
               named("string", "string == '"
                                 \o dbuf_put_escaped(SubSeq(BufData(b, node.str), 1, node.len)) \o "'")
          [] id \in CompareIds ->
               predicate_inspect(h, b, node.predicate,
                 (CASE id = PREDICATE_EQUAL -> named("value", "value == ")
                    [] id = PREDICATE_INSTANCEOF -> named("object", "object instanceof ")
                    [] OTHER -> named("object", "Object.getPrototypeOf(object) == ")),
                 FALSE, pun)
          [] id = PREDICATE_NOTNOT -> named("value", "!!value")
          [] id = PREDICATE_NOT -> named("value", "!value")
          [] id = PREDICATE_BNOT -> named("value", "~value")
          [] id = PREDICATE_SQRT -> named("value", "Math.sqrt(value)")
          [] id \in BinaryIds ->
               LET op == <<" + ", " - ", " * ", " / ", " % ", " | ", " & ", " ** ",
                           " atan2 ">>[id - PREDICATE_ADD + 1]
                   l == tosource_operand(h, b, pr, node.left, t, "", pun)
               IN tosource_operand(h, b, pr, node.right, l, op, pun)
          [] id \in BooleanIds ->
               LET op == <<" || ", " && ", " ^ ">>[id - PREDICATE_OR + 1]
                   RECURSIVE loop(_, _)
                   loop(x, i) ==
                     IF i > node.npredicates THEN x
                     ELSE loop(tosource_operand(h, b, pr, node.predicates[i], x,
                                                IF i > 1 THEN op ELSE "", pun), i + 1)
               IN loop(t, 1)
          [] id = PREDICATE_PROPERTY ->
               LET x == named("object", "object." \o JS_AtomToCString(node.atom))
                   f == tosource_filter(h, b, node.predicate, pun)
               IN IF js_is_null_or_undefined(node.predicate) THEN x
                  ELSE [Put(x, f.str) EXCEPT !.abort = @ \/ f.abort]
          [] id = PREDICATE_MEMBER -> t
          [] id = PREDICATE_FUNCTION -> Put(t, js_value_dump(node.func))
          [] OTHER -> [t EXCEPT !.abort = TRUE]
  IN [body EXCEPT !.dbuf = arguments_dump(body.args) \o " => " \o @]

(***************************************************************************)
(* predicate_dump: the structural rendering, [dbuf, abort].                *)
(***************************************************************************)
predicate_typename(id) ==
  <<"type", "charset", "string", "notnot", "not", "bnot", "sqrt", "add", "sub", "mul",
    "div", "mod", "bor", "band", "pow", "atan2", "or", "and", "xor", "regexp",
    "instanceof", "prototypeis", "equal", "property", "member", "shift", "function">>[id + 1]

RECURSIVE predicate_dump(_, _, _)

(* dbuf_put_value: a value as text; a predicate object by its own dump *)
dbuf_put_value(h, b, value) ==
  IF predicate_is(value) THEN predicate_dump(h, b, js_predicate_data(value))
  ELSE [dbuf |-> js_value_dump(value), abort |-> FALSE]

predicate_dump(h, b, pr) ==
  LET node == h[pr]
      id == node.id
      text(str) == [dbuf |-> str, abort |-> FALSE]
      cat(x, y) == [dbuf |-> x.dbuf \o y.dbuf, abort |-> x.abort \/ y.abort]
      RECURSIVE each(_, _)
      each(items, i) ==
        IF i > Len(items) THEN text("")
        ELSE cat(cat(text(IF i > 1 THEN ", " ELSE ""), items[i]), each(items, i + 1))
      flag(i) == text(<<"UNDEFINED", "NULL", "BOOL", "INT", "OBJECT", "STRING", "SYMBOL",
                        "BIG_FLOAT", "BIG_INT", "BIG_DECIMAL", "FLOAT64", "FUNCTION", "ARRAY">>[i])
      char(c) == text(IF c < 128 THEN "'" \o dbuf_put_escaped(<<c>>) \o "'"
                      ELSE "'\\u" \o ToString(c) \o "'")
      value(x) == dbuf_put_value(h, b, x)
      body ==
        CASE id = PREDICATE_TYPE ->
               cat(text("type == "),
                   LET bits == SelectSeq(<<1, 2, 3, 4, 5, 6, 7, 8, 9, 10, 11, 12, 13>>,
                                         LAMBDA i : (node.flags \div IntPow(2, i - 1)) % 2 = 1)
                   IN each([k \in 1..Len(bits) |-> flag(bits[k])], 1))
          [] id = PREDICATE_CHARSET ->
               cat(cat(text("[ "),
                       each([k \in 1..Len(BufData(b, node.chars)) |-> char(BufData(b, node.chars)[k])], 1)),
                   text(" (len = " \o ToString(node.len) \o ") ]"))
          [] id = PREDICATE_STRING ->
               text("'" \o dbuf_put_escaped(SubSeq(BufData(b, node.str), 1, node.len)) \o "'")
          [] id = PREDICATE_NOTNOT -> cat(cat(text("!!( "), value(node.predicate)), text(" )"))
          [] id = PREDICATE_NOT -> cat(cat(text("!( "), value(node.predicate)), text(" )"))
          [] id \in PREDICATE_ADD .. PREDICATE_POW ->
               cat(cat(cat(cat(text("("), value(node.left)),
                           text(<<" + ", " - ", " * ", " / ", " % ", " | ", " & ",
                                  " ** ">>[id - PREDICATE_ADD + 1])),
                       value(node.right)), text(")"))
          [] id \in BooleanIds ->
               each([k \in 1..node.npredicates |-> value(node.predicates[k])], 1)
          [] id = PREDICATE_REGEXP ->
               text("/" \o dbuf_put_escaped(SubSeq(BufData(b, node.source), 1, node.len)) \o "/")
          [] id = PREDICATE_INSTANCEOF -> text("f" \o ToString(node.predicate.v))
          [] id \in {PREDICATE_PROTOTYPEIS, PREDICATE_EQUAL} -> text(js_value_dump(node.predicate))
          [] id = PREDICATE_PROPERTY ->
               cat(text("'" \o JS_AtomToCString(node.atom) \o "'"),
                   IF js_is_null_or_undefined(node.predicate) THEN text("")
                   ELSE cat(text(", "), value(node.predicate)))
          [] id = PREDICATE_MEMBER -> text(js_value_dump(node.object))
          [] id = PREDICATE_SHIFT ->
               text(">> " \o ToString(node.n) \o " " \o js_value_dump(node.predicate))
          [] id = PREDICATE_FUNCTION -> text("func(" \o ToString(IF node.func.v = 2 THEN 1 ELSE 0) \o ")")
          [] OTHER -> [dbuf |-> "", abort |-> TRUE]
  IN cat(cat(text("Predicate." \o predicate_typename(id) \o "("), body), text(")"))

(***************************************************************************)
(* predicate_keys and predicate_values.  A new array is the value          *)
(* JS_NEWARRAY with its elements beside it; a property name is a "name"    *)
(* value, an index into PropNames.                                         *)
(***************************************************************************)
PropNames == <<"predicate", "left", "right", "atom", "object", "func">>

JS_NEWARRAY == JS("newarray", 0)

(* JS_NewStringLen: the string value with these bytes *)
JS_NewStringLen(bytes) == JS_NewString(CHOOSE i \in 1..Len(StrTab) : StrTab[i] = bytes)

(* js_values_toarray *)
js_values_toarray(values) == [ret |-> JS_NEWARRAY, elems |-> values]

(* the literal of a Charset node is read through the String member of the  *)
(* union, which lies over it                                               *)
predicate_values(h, b, pr) ==
  LET node == h[pr]
      id == node.id
  IN CASE id \in {PREDICATE_TYPE, PREDICATE_REGEXP} -> [ret |-> JS_UNDEFINED, elems |-> <<>>]
       [] id = PREDICATE_CHARSET ->
            js_values_toarray(<<JS_NewStringLen(SubSeq(BufData(b, node.set), 1, node.len))>>)
       [] id = PREDICATE_STRING ->
            js_values_toarray(<<JS_NewStringLen(SubSeq(BufData(b, node.str), 1, node.len))>>)
       [] id \in UnaryIds \cup CompareIds -> js_values_toarray(<<node.predicate>>)
       [] id \in BinaryIds -> js_values_toarray(<<node.left, node.right>>)
       [] id \in BooleanIds -> js_values_toarray(node.predicates)
       [] id = PREDICATE_PROPERTY -> js_values_toarray(<<JS_Atom(node.atom), node.predicate>>)
       [] id = PREDICATE_MEMBER -> [ret |-> node.object, elems |-> <<>>]
       [] id = PREDICATE_SHIFT -> [ret |-> node.predicate, elems |-> <<>>]
       [] id = PREDICATE_FUNCTION -> [ret |-> node.func, elems |-> <<>>]
       [] OTHER -> [ret |-> JS_UNDEFINED, elems |-> <<>>]

predicate_keys(h, pr) ==
  LET node == h[pr]
      id == node.id
      name(i) == JS("name", i)
  IN [ret |-> JS_NEWARRAY,
      elems |->
        CASE id \in UnaryIds \cup CompareIds \cup {PREDICATE_SHIFT} -> <<name(1)>>
          [] id \in BinaryIds -> <<name(2), name(3)>>
          [] id \in BooleanIds -> [i \in 1..node.npredicates |-> JS_NewInt32(i - 1)]
          [] id = PREDICATE_PROPERTY -> <<name(4), name(1)>>
          [] id = PREDICATE_MEMBER -> <<name(5)>>
          [] id = PREDICATE_FUNCTION -> <<name(6)>>
          [] OTHER -> <<>>]

(***************************************************************************)
(* Construction.  The host layer builds nodes fully populated; the model  *)
(* starts from one tree of a fixed forest of them: the heap holds the      *)
(* tree's nodes at their forest addresses, Bufs0 their literals.           *)
(***************************************************************************)
Bufs0 ==
  [ptr \in {BufAddr(25, 0), BufAddr(26, 0), BufAddr(29, 0), BufAddr(30, 0), BufAddr(49, 0)} |->
     [alive |-> TRUE,
      data |-> CASE ptr = BufAddr(29, 0) -> <<97, 98, 99>>
                 [] ptr = BufAddr(30, 0) -> <<97, 98>>
                 [] ptr = BufAddr(25, 0) -> <<40, 99, 41, 63, 40, 97, 41, 98>>
                 [] ptr = BufAddr(49, 0) -> <<>>
                 [] OTHER -> <<40>>]]

Node(id) == [ZeroPredicate EXCEPT !.id = id]
predicate_type(flags) == [Node(PREDICATE_TYPE) EXCEPT !.flags = flags]
predicate_charset(set, len) == [Node(PREDICATE_CHARSET) EXCEPT !.set = set, !.len = len]
predicate_string(str, len) == [Node(PREDICATE_STRING) EXCEPT !.str = str, !.len = len]
predicate_unary(id, value) == [Node(id) EXCEPT !.predicate = value]
predicate_binary(id, left, right) == [Node(id) EXCEPT !.left = left, !.right = right]
predicate_boolean(id, values) ==
  [Node(id) EXCEPT !.npredicates = Len(values), !.predicates = values]
predicate_regexp(source, len) == [Node(PREDICATE_REGEXP) EXCEPT !.source = source, !.len = len]
predicate_property(atom, value) ==
  [Node(PREDICATE_PROPERTY) EXCEPT !.atom = atom, !.predicate = value]
predicate_member(object) == [Node(PREDICATE_MEMBER) EXCEPT !.object = object]
predicate_shift(n, value) == [Node(PREDICATE_SHIFT) EXCEPT !.n = n, !.predicate = value]
predicate_function(func, this_val, arity) ==
  [Node(PREDICATE_FUNCTION) EXCEPT !.func = func, !.this_val = this_val, !.arity = arity]

P(i) == JS_Predicate(i)

Forest ==
  << predicate_unary(PREDICATE_EQUAL, JS_NewInt32(3)),
     predicate_type(8),
     predicate_unary(PREDICATE_NOT, JS_UNDEFINED),
     predicate_unary(PREDICATE_NOT, JS_NewInt32(0)),
     predicate_unary(PREDICATE_NOT, P(1)),
     predicate_unary(PREDICATE_NOTNOT, JS_UNDEFINED),
     predicate_unary(PREDICATE_BNOT, JS_UNDEFINED),
     predicate_unary(PREDICATE_SQRT, JS_UNDEFINED),
     predicate_binary(PREDICATE_SUB, JS_UNDEFINED, JS_UNDEFINED),
     predicate_binary(PREDICATE_ADD, JS_NewInt32(3), JS_UNDEFINED),
     predicate_binary(PREDICATE_SUB, P(1), JS_UNDEFINED),
     predicate_boolean(PREDICATE_AND, <<P(1), P(1)>>),
     predicate_boolean(PREDICATE_OR, <<P(1), P(1)>>),
     predicate_boolean(PREDICATE_AND, <<P(1), JS_NewInt32(0), P(1)>>),
     predicate_boolean(PREDICATE_XOR, <<P(1), JS_NewInt32(3)>>),
     predicate_property(1, JS_UNDEFINED),
     predicate_property(1, P(1)),
     predicate_property(1, JS_Function(1)),
     predicate_unary(PREDICATE_NOT, P(16)),
     predicate_boolean(PREDICATE_AND, <<P(16), P(1)>>),
     predicate_binary(PREDICATE_ADD, P(16), JS_UNDEFINED),
     predicate_function(JS_Function(2), JS_Object(1), 2),
     predicate_function(JS_Function(2), JS_Object(1), 1),
     predicate_function(JS_Function(1), JS_Object(1), 3),
     predicate_regexp(BufAddr(25, 0), 8),
     predicate_regexp(BufAddr(26, 0), 1),
     predicate_shift(1, P(1)),
     predicate_member(JS_Object(1)),
     predicate_charset(BufAddr(29, 0), 3),
     predicate_string(BufAddr(30, 0), 2),
     predicate_unary(PREDICATE_INSTANCEOF, JS_Function(3)),
     predicate_unary(PREDICATE_PROTOTYPEIS, JS_Object(2)),
     predicate_boolean(PREDICATE_OR, <<P(16), P(1)>>),
     predicate_unary(PREDICATE_NOTNOT, P(16)),
     predicate_unary(PREDICATE_BNOT, JS_NewInt32(3)),
     predicate_unary(PREDICATE_SQRT, P(10)),
     predicate_boolean(PREDICATE_XOR, <<P(16), P(1)>>),
     predicate_boolean(PREDICATE_OR, <<P(2), P(2)>>),
     predicate_unary(PREDICATE_EQUAL, JS_Object(1)),
     predicate_type(1),
     predicate_binary(PREDICATE_MUL, JS_UNDEFINED, JS_NewInt32(3)),
     predicate_binary(PREDICATE_DIV, JS_UNDEFINED, JS_UNDEFINED),
     predicate_binary(PREDICATE_MOD, JS_UNDEFINED, JS_NewInt32(3)),
     predicate_binary(PREDICATE_BOR, JS_NewInt32(3), JS_UNDEFINED),
     predicate_binary(PREDICATE_BAND, JS_UNDEFINED, JS_UNDEFINED),
     predicate_binary(PREDICATE_POW, JS_NewInt32(3), JS_UNDEFINED),
     predicate_binary(PREDICATE_ATAN2, JS_UNDEFINED, JS_UNDEFINED),
     predicate_binary(PREDICATE_ADD, JS_UNDEFINED, JS_UNDEFINED),
     predicate_charset(BufAddr(49, 0), 0),
     predicate_shift(1, P(4)),
     predicate_boolean(PREDICATE_AND, <<P(1), P(50)>>),
     predicate_binary(PREDICATE_SUB, JS_NewInt32(3), P(9)),
     predicate_binary(PREDICATE_MUL, JS_NewInt32(3), P(48)) >>

(* the values a node holds a reference to, one entry per reference *)
NodeRefs(node) ==
  CASE node.id \in UnaryIds \cup CompareIds \cup {PREDICATE_SHIFT} -> <<node.predicate>>
    [] node.id \in BinaryIds -> <<node.left, node.right>>
    [] node.id \in BooleanIds -> node.predicates
    [] node.id = PREDICATE_PROPERTY -> <<JS_Atom(node.atom), node.predicate>>
    [] node.id = PREDICATE_MEMBER -> <<node.object>>
    [] node.id = PREDICATE_FUNCTION -> <<node.func, node.this_val>>
    [] OTHER -> <<>>

(* the buffers a node points to *)
NodeBufs(node) ==
  CASE node.id = PREDICATE_CHARSET -> {node.set, node.chars} \ {0}
    [] node.id = PREDICATE_STRING -> {node.str} \ {0}
    [] node.id = PREDICATE_REGEXP -> {node.source, node.bytecode} \ {0}
    [] OTHER -> {}

(* the nodes an evaluation of pr can reach through operands *)
RECURSIVE Reach(_, _)
Reach(h, pr) ==
  {pr} \cup UNION {Reach(h, js_predicate_data(NodeRefs(h[pr])[k])) :
                     k \in {j \in 1..Len(NodeRefs(h[pr])) : predicate_is(NodeRefs(h[pr])[j])}}

(* the tree under a node of the forest *)
Tree(pr) == [q \in Reach(Forest, pr) |-> Forest[q]]

(* the reference-counted values of a scenario *)
RefVals(pr) ==
  {JS_Object(i) : i \in 1..2} \cup {JS_Function(i) : i \in 1..3} \cup {JS_Array(1)}
    \cup {JS_Atom(a) : a \in Atoms} \cup {JS_Predicate(q) : q \in Reach(Forest, pr)}

(* what the running script itself holds: every value it can pass as an    *)
(* argument                                                               *)
HostRefs(value) == IF value.t \in {"object", "function", "array"} THEN 1 ELSE 0

RECURSIVE CountRefs(_, _, _)
CountRefs(h, value, i) ==
  IF i > HeapTop(h) THEN 0
  ELSE (IF i \in DOMAIN h /\ h[i].live
        THEN Cardinality({k \in 1..Len(NodeRefs(h[i])) : NodeRefs(h[i])[k] = value})
        ELSE 0) + CountRefs(h, value, i + 1)

(* the arguments of the model's calls *)
ArgValues ==
  {JS_NewInt32(0), JS_NewInt32(3), JS_NewString(3), JS_Object(1), JS_Array(1), JS_Function(1)}

RECURSIVE SeqsUpTo(_, _)
SeqsUpTo(S, n) ==
  IF n = 0 THEN {<<>>}
  ELSE LET shorter == SeqsUpTo(S, n - 1)
       IN shorter \cup {Append(q, x) : q \in {r \in shorter : Len(r) = n - 1}, x \in S}

ArgSeqs == SeqsUpTo(ArgValues, MaxArgs)

Garbage == {JS_GARBAGE, JS_NewInt32(3)}

NoObs ==
  [op |-> "init", pr |-> 0, args |-> <<>>, ret |-> JS_UNDEFINED, p |-> 0, uf |-> FALSE,
   crash |-> FALSE, log |-> <<>>, g |-> JS_GARBAGE, ub |-> 0, text |-> "", elems |-> <<>>]

(***************************************************************************)
(* The Promise record of js-utils.h: the promise, its two resolving        *)
(* functions (resolve at index 0, reject at index 1), and, for the         *)
(* properties, what has been called on it since promise_init: calls is     *)
(* the list of invocations of a resolving function, tries the number of    *)
(* promise_resolve and promise_reject calls.                               *)
(***************************************************************************)
MaxSettles == 3

PromiseValues == {JS_NewInt32(0), JS_NewInt32(3)}

JS_PROMISE == JS("promise", 1)

(* js_resolve_functions_zero *)
js_resolve_functions_zero == <<JS_NULL, JS_NULL>>

(* js_resolve_functions_is_null *)
js_resolve_functions_is_null(funcs) == funcs[1] = JS_NULL /\ funcs[2] = JS_NULL

(* a record after promise_zero that nothing has been called on *)
PromiseZeroed ==
  [promise |-> JS_UNDEFINED, funcs |-> js_resolve_functions_zero, calls |-> <<>>, tries |-> 0,
   ret |-> JS_UNDEFINED, crash |-> FALSE, op |-> "zero"]

(* js_resolve_functions_free(ctx, funcs): both functions released, then    *)
(* the pair zeroed                                                         *)
js_resolve_functions_free(p) == [p EXCEPT !.funcs = js_resolve_functions_zero]

(* what js_resolve_functions_free(funcs, ctx), called with its two         *)
(* arguments exchanged, does: it releases and zeroes the first two values  *)
(* stored at the address of the context, with the pair of functions taken  *)
(* for the context.  The pair itself is not written; the program either    *)
(* goes on or stops there.                                                 *)
StrayFree == {"goes on", "stops"}

(* js_resolve_functions_call *)
js_resolve_functions_call(p, index, arg, stray) ==
  IF p.funcs[index + 1] # JS_NULL
  THEN [p EXCEPT !.calls = Append(@, [index |-> index, arg |-> arg]),
                 !.ret = JS_UNDEFINED,
                 !.crash = (stray = "stops")]
  ELSE [p EXCEPT !.ret = JS_UNDEFINED]

(* promise_init: JS_NewPromiseCapability makes the promise and stores its  *)
(* two resolving functions                                                 *)
promise_init(p) ==
  [p EXCEPT !.promise = JS_PROMISE, !.funcs = <<JS_Function(4), JS_Function(5)>>,
            !.calls = <<>>, !.tries = 0]

promise_resolve(p, value, stray) == js_resolve_functions_call(p, 0, value, stray)

promise_reject(p, value, stray) == js_resolve_functions_call(p, 1, value, stray)

promise_zero(p) == [p EXCEPT !.promise = JS_UNDEFINED, !.funcs = js_resolve_functions_zero]

promise_free(p) == js_resolve_functions_free([p EXCEPT !.promise = JS_UNDEFINED])

promise_pending(p) == p.promise # JS_UNDEFINED /\ ~js_resolve_functions_is_null(p.funcs)

promise_done(p) == p.promise # JS_UNDEFINED /\ js_resolve_functions_is_null(p.funcs)

(***************************************************************************)
(* The UTF-8 TextDecoder of quickjs-textcode.c.  Its ring buffer is kept   *)
(* as the two runs of bytes the decoder reads it as: first, the            *)
(* continuous run from the read position to the end of the storage, and    *)
(* second, the run from the start of the storage to the write position,    *)
(* which holds bytes when the buffer is wrapped (head < tail); tail is the  *)
(* read position, the number of free bytes at the start of the storage     *)
(* that a wrapped write can use.                                           *)
(***************************************************************************)
MaxDecodes == 3

(* valid UTF-8 streams: sequences of one, two and three bytes *)
Streams ==
  { <<97, 98, 99>>, <<195, 169>>, <<97, 195, 169>>, <<195, 169, 98>>, <<226, 130, 172>>,
    <<97, 226, 130, 172>>, <<97, 98, 195, 169>> }

(* what a read past the end of the storage may find in each byte *)
OverRead == {0, 98}

IsContinuation(byte) == byte >= 128 /\ byte < 192

(* unicode_from_utf8 on the bytes at p: the length of the sequence that   *)
(* begins there, 0 where it answers -1 (incomplete or no sequence)         *)
utf8_sequence(p) ==
  IF p = <<>> THEN 0
  ELSE IF p[1] < 128 THEN 1
  ELSE IF p[1] >= 192 /\ p[1] < 224
       THEN IF Len(p) >= 2 /\ IsContinuation(p[2]) THEN 2 ELSE 0
  ELSE IF p[1] >= 224 /\ p[1] < 240
       THEN IF Len(p) >= 3 /\ IsContinuation(p[2]) /\ IsContinuation(p[3]) THEN 3 ELSE 0
  ELSE 0

(* the code point of the complete sequence at the start of p *)
utf8_codepoint(p) ==
  CASE utf8_sequence(p) = 1 -> p[1]
    [] utf8_sequence(p) = 2 -> (p[1] - 192) * 64 + (p[2] - 128)
    [] utf8_sequence(p) = 3 -> (p[1] - 224) * 4096 + (p[2] - 128) * 64 + (p[3] - 128)
    [] OTHER -> 65533

(* the text JS_NewStringLen makes of bytes, as code points; a byte that    *)
(* begins no sequence gives U+FFFD                                         *)
RECURSIVE utf8_text(_)
utf8_text(bytes) ==
  IF bytes = <<>> THEN <<>>
  ELSE LET n == IF utf8_sequence(bytes) = 0 THEN 1 ELSE utf8_sequence(bytes)
       IN <<utf8_codepoint(bytes)>> \o utf8_text(SubSeq(bytes, n + 1, Len(bytes)))

(* textdecoder_try: the bytes of the complete sequences at the start *)
RECURSIVE textdecoder_try(_)
textdecoder_try(in) ==
  IF utf8_sequence(in) = 0 THEN 0
  ELSE utf8_sequence(in) + textdecoder_try(SubSeq(in, utf8_sequence(in) + 1, Len(in)))

RingEmpty == [first |-> <<>>, second |-> <<>>, tail |-> 0]

ringbuffer_length(rb) == Len(rb.first) + Len(rb.second)

ringbuffer_continuous(rb) == Len(rb.first)

(* an emptied first run: the read position wraps to the start *)
RingTidy(rb) ==
  IF rb.first = <<>> /\ rb.second # <<>>
  THEN [first |-> rb.second, second |-> <<>>, tail |-> 0]
  ELSE rb

(* ringbuffer_write: the bytes go behind those held.  room of them fit    *)
(* before the end of the storage and the others wrap to its start, where   *)
(* the bytes read before have left tail bytes free; a write with no space  *)
(* left makes the buffer one continuous run in larger storage              *)
CanWrap(rb, x, room) == room <= Len(x) /\ Len(rb.second) + (Len(x) - room) <= rb.tail

ringbuffer_write(rb, x, room) ==
  RingTidy(IF rb.second = <<>> /\ CanWrap(rb, x, room)
           THEN [rb EXCEPT !.first = @ \o SubSeq(x, 1, room),
                           !.second = SubSeq(x, room + 1, Len(x))]
           ELSE IF rb.second # <<>> /\ CanWrap(rb, x, 0)
           THEN [rb EXCEPT !.second = @ \o x]
           ELSE [first |-> rb.first \o rb.second \o x, second |-> <<>>, tail |-> 0])

(* ringbuffer_normalize: the bytes held become one continuous run *)
ringbuffer_normalize(rb) == [first |-> rb.first \o rb.second, second |-> <<>>, tail |-> 0]

(* ringbuffer_skip: the read position moves on by n bytes *)
ringbuffer_skip(rb, n) ==
  RingTidy(IF n <= Len(rb.first)
           THEN [rb EXCEPT !.first = SubSeq(@, n + 1, Len(@)), !.tail = @ + n]
           ELSE [first |-> SubSeq(rb.second, n - Len(rb.first) + 1, Len(rb.second)),
                 second |-> <<>>, tail |-> n - Len(rb.first)])

(* textdecoder_length *)
textdecoder_length(rb) ==
  LET len == textdecoder_try(rb.first)
  IN IF len = ringbuffer_continuous(rb) /\ rb.second # <<>>
     THEN len + textdecoder_try(rb.second)
     ELSE len

(* the blen bytes JS_NewStringLen reads from ringbuffer_begin on: the      *)
(* continuous run and then, past the end of the storage, whatever lies     *)
(* there                                                                   *)
LinearRead(rb, blen, g) ==
  IF blen <= Len(rb.first) THEN SubSeq(rb.first, 1, blen)
  ELSE rb.first \o [i \in 1..(blen - Len(rb.first)) |-> g]

(* textdecoder_decode, the UTF8 case *)
textdecoder_decode(rb, g) ==
  LET rlen == ringbuffer_length(rb)
      rb1 == IF textdecoder_length(rb) < rlen THEN ringbuffer_normalize(rb) ELSE rb
      blen == textdecoder_length(rb1)
  IN [ret |-> [null |-> FALSE, text |-> utf8_text(LinearRead(rb1, blen, g))],
      buffer |-> ringbuffer_skip(rb1, blen),
      overread |-> blen > Len(rb1.first)]

(* js_decoder_decode; magic is "decode" or "end" *)
js_decoder_decode(rb, in, magic, room, g) ==
  LET rb1 == ringbuffer_write(rb, in, room)
      r == IF ringbuffer_length(rb1) = 0
           THEN [ret |-> [null |-> TRUE, text |-> <<>>], buffer |-> rb1, overread |-> FALSE]
           ELSE textdecoder_decode(rb1, g)
  IN IF magic = "end" THEN [r EXCEPT !.buffer = RingEmpty] ELSE r

(* js_decoder_get, DECODER_BUFFERED *)
js_decoder_get(rb) == ringbuffer_length(rb)

(* no text decoder *)
DecoderNone ==
  [op |-> "none", stream |-> <<>>, fed |-> 0, buffer |-> RingEmpty, out |-> <<>>, overread |-> FALSE]

(***************************************************************************)
(* The XML reader js_xml_parse, not flat, on the tags of its input.  st is *)
(* the stack of open elements: each entry has the name of its element and, *)
(* as owner, the element whose children it collects (0: the result         *)
(* array).  nodes lists the elements made, each with its tag name and the  *)
(* element it was appended to.                                             *)
(***************************************************************************)
MaxTags == 3

TagNames == {"a", "b"}

(* the tags of an input: opening tags, closing tags, and the closing tag  *)
(* without a name                                                          *)
Tags ==
  [k : {"open", "close"}, name : TagNames] \cup {[k |-> "close", name |-> ""]}

(* the first entry of the stack is made by vector_emplace and only its obj *)
(* and idx are set: its name and namelen are whatever the storage held: a  *)
(* length of 0, the name of an entry of an earlier parse, or a name no tag *)
(* has                                                                     *)
RootGarbage == {"", "a", "?"}

(* find_tag: the index, from 0, of the last entry with the name; -1 when  *)
(* there is none                                                           *)
find_tag(st, name) ==
  LET hits == {index \in 0..(Len(st) - 1) : st[index + 1].name = name}
  IN IF hits = {} THEN -1 ELSE CHOOSE index \in hits : \A o \in hits : o <= index

(* yield_return *)
yield_return(st, index) == IF index >= 1 THEN SubSeq(st, 1, index) ELSE st

(* yield_next and yield_push for an opening tag: the element is appended   *)
(* to the array of the last entry, and an entry for its children pushed    *)
yield_next(x, name) ==
  [x EXCEPT !.nodes = Append(@, [tagName |-> name, parent |-> x.st[Len(x.st)].owner])]

yield_push(x, name) ==
  [x EXCEPT !.st = Append(@, [name |-> name, owner |-> Len(x.nodes)])]

(* one turn of the loop of js_xml_parse, on the tag at the read position *)
js_xml_parse(x) ==
  LET tag == x.input[x.pos + 1]
      index == find_tag(x.st, tag.name)
  IN IF x.pos >= Len(x.input) THEN [x EXCEPT !.op = "done"]
     ELSE IF tag.k = "close"
     THEN IF index = -1
          THEN [x EXCEPT !.op = "error", !.ret = "SyntaxError"]
          ELSE [x EXCEPT !.st = yield_return(@, index), !.pos = @ + 1]
     ELSE [yield_push(yield_next(x, tag.name), tag.name) EXCEPT !.pos = @ + 1]

XmlNone ==
  [op |-> "none", input |-> <<>>, pos |-> 0, st |-> <<>>, nodes |-> <<>>, ret |-> "none"]

Init ==
  /\ root \in 1..Len(Forest)
  /\ heap = Tree(root)
  /\ bufs = [ptr \in UNION {NodeBufs(Forest[q]) : q \in Reach(Forest, root)} |-> Bufs0[ptr]]
  /\ rc = [value \in RefVals(root) |-> CountRefs(Tree(root), value, 1) + HostRefs(value)]
  /\ arrays = <<[length |-> 0, elems |-> <<>>]>>
  /\ obs = NoObs
  /\ prom = PromiseZeroed
  /\ dec = DecoderNone
  /\ xml = XmlNone

(***************************************************************************)
(* Operations.                                                             *)
(***************************************************************************)
EvalState(pr, argv, g, ub) ==
  [h |-> heap, b |-> bufs, a |-> arrays, c |-> Len(argv), v |-> argv, p |-> 0, d |-> 0,
   log |-> <<>>, uf |-> FALSE, crash |-> FALSE, g |-> g, ub |-> ub]

(* the clones made of the root *)
Clones == DOMAIN heap \ DOMAIN Tree(root)

(* the nodes of the scenario: its root and the clones made of it *)
Targets == {root} \cup Clones

Eval(pr, argv, g, ub) ==
  /\ obs.op # "eval"
  /\ heap[pr].live
  /\ LET r == predicate_eval(EvalState(pr, argv, g, ub), pr)
     IN /\ heap' = r.s.h
        /\ bufs' = r.s.b
        /\ arrays' = r.s.a
        /\ obs' = [op |-> "eval", pr |-> pr, args |-> argv, ret |-> r.ret, p |-> r.s.p,
                   uf |-> r.s.uf, crash |-> r.s.crash, log |-> r.s.log, g |-> g, ub |-> ub,
                   text |-> "", elems |-> <<>>]
  /\ UNCHANGED <<rc, root>>
  /\ UNCHANGED others

Clone(pr) ==
  /\ obs.op # "eval"
  /\ heap[pr].live
  /\ Cardinality(Clones) < MaxClones
  /\ LET f == predicate_clone([h |-> heap, b |-> bufs, rc |-> rc], pr)
     IN /\ heap' = f.h
        /\ bufs' = f.b
        /\ rc' = f.rc
  /\ obs' = [NoObs EXCEPT !.op = "clone", !.pr = pr]
  /\ UNCHANGED <<arrays, root>>
  /\ UNCHANGED others

Free(pr) ==
  /\ obs.op # "eval"
  /\ heap[pr].live
  /\ LET f == predicate_free_rt([h |-> heap, b |-> bufs, rc |-> rc], pr)
     IN /\ heap' = f.h
        /\ bufs' = f.b
        /\ rc' = f.rc
  /\ obs' = [NoObs EXCEPT !.op = "free", !.pr = pr]
  /\ UNCHANGED <<arrays, root>>
  /\ UNCHANGED others

(* the caller is done with the value the evaluation returned; it does so   *)
(* before its next operation on the predicates                             *)
Release ==
  /\ obs.op = "eval"
  /\ obs' = NoObs
  /\ UNCHANGED <<heap, bufs, rc, arrays, root>>
  /\ UNCHANGED others

(* what an uninitialised argument slot can hold: only a Function node     *)
(* reads one                                                              *)
Uninitialised(h, pr) ==
  IF \E q \in Reach(h, pr) : h[q].id = PREDICATE_FUNCTION THEN Garbage ELSE {JS_GARBAGE}

(* what running the match engine without a compiled form can do: nothing  *)
(* found (0), something found (1), abnormal termination (2); only a Regex *)
(* node whose pattern does not compile runs it so                         *)
NullBytecode(h, b, pr) ==
  IF \E q \in Reach(h, pr) :
       /\ h[q].id = PREDICATE_REGEXP
       /\ ~RegexpValid(SubSeq(BufData(b, h[q].source), 1, h[q].len))
  THEN 0..2 ELSE {0}

Next ==
  \/ /\ obs.op # "eval"
     /\ \E pr \in Targets :
          \E g \in Uninitialised(heap, pr), ub \in NullBytecode(heap, bufs, pr) :
            \E argv \in ArgSeqs : Eval(pr, argv, g, ub)
  \/ Clone(root)
  \/ \E pr \in Targets : Free(pr)
  \/ Release

Spec == Init /\ [][Next]_vars

(***************************************************************************)
(* The operations that render, list or compile a node.                     *)
(***************************************************************************)
(* toSource without a parameter-name list *)
ToSource(pr, pun) ==
  /\ obs.op # "eval"
  /\ heap[pr].live
  /\ LET r == predicate_tosource(heap, bufs, pr,
                                 [dbuf |-> "", args |-> NullArguments, abort |-> FALSE, uf |-> FALSE],
                                 pun)
     IN obs' = [NoObs EXCEPT !.op = "tosource", !.pr = pr, !.text = r.dbuf,
                             !.crash = r.abort, !.uf = r.uf]
  /\ UNCHANGED <<heap, bufs, rc, arrays, root>>
  /\ UNCHANGED others

(* toString *)
Dump(pr) ==
  /\ obs.op # "eval"
  /\ heap[pr].live
  /\ LET r == predicate_dump(heap, bufs, pr)
     IN obs' = [NoObs EXCEPT !.op = "dump", !.pr = pr, !.text = r.dbuf, !.crash = r.abort]
  /\ UNCHANGED <<heap, bufs, rc, arrays, root>>
  /\ UNCHANGED others

Keys(pr) ==
  /\ obs.op # "eval"
  /\ heap[pr].live
  /\ LET r == predicate_keys(heap, pr)
     IN obs' = [NoObs EXCEPT !.op = "keys", !.pr = pr, !.ret = r.ret, !.elems = r.elems]
  /\ UNCHANGED <<heap, bufs, rc, arrays, root>>
  /\ UNCHANGED others

Values(pr) ==
  /\ obs.op # "eval"
  /\ heap[pr].live
  /\ LET r == predicate_values(heap, bufs, pr)
     IN obs' = [NoObs EXCEPT !.op = "values", !.pr = pr, !.ret = r.ret, !.elems = r.elems]
  /\ UNCHANGED <<heap, bufs, rc, arrays, root>>
  /\ UNCHANGED others

(* compileRegex: an abort leaves the node as it was *)
CompileRegex(pr) ==
  /\ obs.op # "eval"
  /\ heap[pr].live
  /\ LET r == predicate_regexp_compile(EvalState(pr, <<>>, JS_GARBAGE, 0), pr)
     IN /\ heap' = IF r.s.crash THEN heap ELSE r.s.h
        /\ bufs' = IF r.s.crash THEN bufs ELSE r.s.b
        /\ obs' = [NoObs EXCEPT !.op = "compile", !.pr = pr, !.ret = JS_NewInt32(r.ret),
                                !.crash = r.s.crash]
  /\ UNCHANGED <<rc, arrays, root>>
  /\ UNCHANGED others

(* the arguments of the operations on text *)
TextValues == {JS_NewString(i) : i \in 1..Len(StrTab)}

TextSeqs == SeqsUpTo(TextValues, MaxArgs)

NextText ==
  \/ /\ obs.op # "eval"
     /\ \E g \in Uninitialised(heap, root), ub \in NullBytecode(heap, bufs, root) :
          \E argv \in TextSeqs : Eval(root, argv, g, ub)
  \/ Release
  \/ CompileRegex(root)
  \/ \E pun \in Puns : ToSource(root, pun)
  \/ Dump(root)
  \/ Keys(root)
  \/ Values(root)

SpecText == Init /\ [][NextText]_vars

(***************************************************************************)
(* Helpers of the properties below.                                        *)
(***************************************************************************)
(* the state an evaluation of pr starts its switch in *)
Entered(pr, argv, g, ub) ==
  Logged(EvalState(pr, argv, g, ub), "eval", pr, JS_UNDEFINED, <<>>, <<>>)

(* every operand resolved in turn, none skipped: the i-th entry is the     *)
(* result and state after operand i                                        *)
RECURSIVE Chain(_, _)
Chain(s, operands) ==
  IF operands = <<>> THEN <<>>
  ELSE LET x == predicate_value(s, Head(operands))
       IN <<x>> \o Chain(x.s, Tail(operands))

Falsy(value) == JS_ToBool(value) = 0
Truthy(value) == JS_ToBool(value) # 0

(* the events of kind e in a log *)
Events(log, e) == SelectSeq(log, LAMBDA x : x.e = e)

IsEval == obs.op = "eval" /\ ~obs.crash

(***************************************************************************)
(* C1: an And node returns the result of its first falsy operand and       *)
(* leaves the cursor and the record of what was done exactly as they were  *)
(* right after that operand (nothing later is evaluated or consumed); with *)
(* no falsy operand it returns the last result.  Or does the same with the *)
(* first truthy operand.  (A failed operand converts to -1: it does not    *)
(* stop And and it stops Or.)                                              *)
(***************************************************************************)
C1_ShortCircuit ==
  [][(obs'.op = "eval" /\ heap[obs'.pr].id \in {PREDICATE_OR, PREDICATE_AND}) =>
       LET pr == obs'.pr
           s0 == Entered(pr, obs'.args, obs'.g, obs'.ub)
           chain == Chain(s0, heap[pr].predicates)
           stops(x) == IF heap[pr].id = PREDICATE_AND THEN Falsy(x.ret) ELSE Truthy(x.ret)
           hits == {i \in 1..Len(chain) : stops(chain[i])}
           k == IF hits = {} THEN Len(chain) ELSE CHOOSE i \in hits : \A j \in hits : i <= j
       IN IF k = 0
          THEN obs'.ret = JS_UNDEFINED /\ obs'.p = 0
          ELSE /\ obs'.ret = chain[k].ret
               /\ obs'.p = chain[k].s.p
               /\ obs'.log = chain[k].s.log]_vars

(* an And of two cursor-consuming operands stopped at the first one *)
C1_Witness ==
  /\ IsEval
  /\ heap[obs.pr].id = PREDICATE_AND
  /\ heap[obs.pr].npredicates >= 2
  /\ predicate_is(heap[obs.pr].predicates[2])
  /\ Falsy(obs.ret)
  /\ obs.p = 1
  /\ Len(obs.args) = 2

(***************************************************************************)
(* C2: when no operand slot of the tree holds a literal and no argument    *)
(* was missing, the number of arguments an evaluation consumed equals      *)
(* predicate_recursive_num_args of the tree.                               *)
(***************************************************************************)
(* the operand slots of a node: what resolves to an operand value *)
OperandSlots(node) ==
  CASE node.id \in UnaryIds \cup {PREDICATE_SHIFT, PREDICATE_PROPERTY} -> <<node.predicate>>
    [] node.id \in BinaryIds -> <<node.left, node.right>>
    [] node.id \in BooleanIds -> node.predicates
    [] OTHER -> <<>>

NoLiteralOperand(h, pr) ==
  \A q \in Reach(h, pr) : \A k \in 1..Len(OperandSlots(h[q])) :
     js_is_null_or_undefined(OperandSlots(h[q])[k]) \/ predicate_is(OperandSlots(h[q])[k])

C2_NumArgsIsConsumed ==
  (IsEval /\ ~obs.uf /\ NoLiteralOperand(heap, obs.pr)) =>
     \A pun \in Puns : obs.p = predicate_recursive_num_args(heap, obs.pr, pun)

(***************************************************************************)
(* C3: a Function node of arity k, given at least k arguments, takes       *)
(* exactly k of them and calls the captured callable, bound to the         *)
(* captured receiver, with those k arguments in order; it returns the      *)
(* callable's result.                                                      *)
(***************************************************************************)
C3_FunctionTakesArity ==
  (IsEval /\ heap[obs.pr].id = PREDICATE_FUNCTION /\ Len(obs.args) >= heap[obs.pr].arity) =>
     LET node == heap[obs.pr]
         calls == Events(obs.log, "call")
         argv == SubSeq(obs.args, 1, node.arity)
     IN /\ obs.p = node.arity
        /\ Len(calls) = 1
        /\ calls[1].n = node.func.v
        /\ calls[1].val = node.this_val
        /\ calls[1].args = argv
        /\ obs.ret = JS_Call(node.func, node.this_val, argv)

(***************************************************************************)
(* C4: a Not, Double-not, Bitwise-not or Square-root node with an unset    *)
(* operand consumes exactly one argument and applies its operation to it;  *)
(* with a literal operand it consumes nothing and applies the operation to *)
(* the literal.                                                            *)
(***************************************************************************)
C4_UnaryOperand ==
  (IsEval /\ heap[obs.pr].id \in UnaryIds /\ Len(obs.args) >= 1) =>
     LET node == heap[obs.pr]
     IN /\ js_is_null_or_undefined(node.predicate) =>
             obs.p = 1 /\ obs.ret = unary_op(node.id, obs.args[1])
        /\ (~js_is_null_or_undefined(node.predicate) /\ ~predicate_callable(node.predicate)) =>
             obs.p = 0 /\ obs.ret = unary_op(node.id, node.predicate)

(***************************************************************************)
(* C5 as stated: an arithmetic node whose operands are both unset, given   *)
(* [x, y], computes x op y from the two arguments themselves, whatever     *)
(* they are, and advances the cursor by two.                               *)
(***************************************************************************)
BothUnset(node) ==
  node.id \in BinaryIds /\ js_is_null_or_undefined(node.left) /\ js_is_null_or_undefined(node.right)

C5_ArgumentItself ==
  (IsEval /\ BothUnset(heap[obs.pr]) /\ Len(obs.args) >= 2) =>
     /\ obs.p = 2
     /\ obs.ret = binary_op(heap[obs.pr].id, JS_ToFloat64(obs.args[1]), JS_ToFloat64(obs.args[2]))

(***************************************************************************)
(* C5 amended: the left operand is resolved before the right one on the    *)
(* same cursor.  With both operands unset and arguments [x, y] that are    *)
(* neither predicates nor callables the node computes x op y and advances  *)
(* the cursor by two; an argument that is a callable is called and the     *)
(* operand is what the call returns.  A literal operand consumes nothing:  *)
(* with a literal left operand l and arguments [x] the node computes       *)
(* l op x and advances the cursor by one.                                  *)
(***************************************************************************)
Plain(value) == ~predicate_callable(value)

(* the value an argument resolves to, given the calls the log recorded *)
Resolved(value, calls, k) ==
  IF JS_IsFunction(value) THEN JS_Call(value, calls[k].val, calls[k].args) ELSE value

C5_LeftThenRight ==
  (IsEval /\ heap[obs.pr].id \in BinaryIds) =>
     LET node == heap[obs.pr]
         x == obs.args[1]
         y == obs.args[2]
         calls == Events(obs.log, "call")
         nx == IF JS_IsFunction(x) THEN 1 ELSE 0
     IN /\ (BothUnset(node) /\ Len(obs.args) >= 2) =>
             /\ obs.p = 2
             /\ Len(calls) = nx + (IF JS_IsFunction(y) THEN 1 ELSE 0)
             /\ obs.ret = binary_op(node.id, JS_ToFloat64(Resolved(x, calls, 1)),
                                    JS_ToFloat64(Resolved(y, calls, nx + 1)))
        /\ (Plain(node.left) /\ ~js_is_null_or_undefined(node.left)
              /\ js_is_null_or_undefined(node.right) /\ Len(obs.args) >= 1 /\ Plain(x)) =>
             /\ obs.p = 1
             /\ obs.ret = binary_op(node.id, JS_ToFloat64(node.left), JS_ToFloat64(x))

(* Sub(unset, unset) on two different plain numbers *)
C5_Witness ==
  /\ IsEval
  /\ heap[obs.pr].id = PREDICATE_SUB
  /\ BothUnset(heap[obs.pr])
  /\ Len(obs.args) = 2
  /\ obs.args[1].t = "int" /\ obs.args[2].t = "int"
  /\ obs.args[1] # obs.args[2]
  /\ obs.p = 2

(***************************************************************************)
(* C6: every evaluation of a Regex node that matches and is given an array *)
(* sink sets the sink's length to the pattern's capture count and stores   *)
(* at index i the [start, end] offsets of group i, or the empty marker; a  *)
(* callback gets one pair per group.  This holds on the first evaluation   *)
(* and on every later one, when the node already holds its compiled form.  *)
(***************************************************************************)
RegexpSource(pr) == SubSeq(BufData(bufs, heap[pr].source), 1, heap[pr].len)

C6_SinkEveryEvaluation ==
  [][(/\ obs'.op = "eval"
      /\ ~obs'.crash
      /\ heap[obs'.pr].id = PREDICATE_REGEXP
      /\ RegexpValid(RegexpSource(obs'.pr))
      /\ Len(obs'.args) = 2
      /\ obs'.ret = JS_NewBool(TRUE)) =>
       LET pattern == RegexpSource(obs'.pr)
           count == lre_get_capture_count(pattern)
           m == lre_exec(pattern, js_input_chars(obs'.args[1]))
           extra == obs'.args[2]
           calls == Events(obs'.log, "call")
       IN /\ JS_IsArray(extra) =>
               /\ arrays'[extra.v].length = count
               /\ arrays'[extra.v].elems = [i \in 1..count |-> m.capture[i]]
          /\ JS_IsFunction(extra) =>
               /\ Len(calls) = 1
               /\ Len(calls[1].cap) = count]_vars

(***************************************************************************)
(* C7: evaluating a Regex node whose pattern does not compile, with its    *)
(* input argument present, yields an explicit failure, and the match       *)
(* engine is never run on a node whose compiled form is unset.             *)
(***************************************************************************)
C7_CompileFailureExplicit ==
  (obs.op = "eval" /\ ~obs.uf /\ heap[obs.pr].id = PREDICATE_REGEXP) =>
     /\ \A i \in 1..Len(obs.log) : obs.log[i].e = "lre_exec" => obs.log[i].n # 0
     /\ ~RegexpValid(RegexpSource(obs.pr)) => obs.ret = JS_EXCEPTION

(***************************************************************************)
(* C8: when a sub-expression fails (no argument was missing), the         *)
(* evaluation returns that failure and nothing is evaluated, consumed or   *)
(* called after the failing sub-expression.                                *)
(***************************************************************************)
C8_FailurePropagates ==
  (IsEval /\ ~obs.uf /\ Events(obs.log, "throw") # <<>>) =>
     /\ obs.ret = JS_EXCEPTION
     /\ obs.log[Len(obs.log)].e = "throw"

(***************************************************************************)
(* C9: a Property node consumes exactly one argument of the shared cursor. *)
(* When that argument is not an object the result is a type failure and    *)
(* no property is read.  Otherwise the named property is read once, and a  *)
(* callable or predicate post-filter is applied to the read value alone,   *)
(* as a call with a cursor of its own over that one value: the outer       *)
(* cursor stays advanced by one.                                           *)
(***************************************************************************)
C9_PropertyNode ==
  (IsEval /\ heap[obs.pr].id = PREDICATE_PROPERTY /\ Len(obs.args) >= 1) =>
     LET node == heap[obs.pr]
         obj == obs.args[1]
         filter == node.predicate
         reads == Events(obs.log, "getprop")
         value == JS_GetProperty(obj, node.atom)
         fresh == predicate_eval(EvalState(js_predicate_data(filter), <<value>>, obs.g, obs.ub),
                                 js_predicate_data(filter))
     IN /\ obs.p = 1
        /\ ~JS_IsObject(obj) => obs.ret = JS_EXCEPTION /\ reads = <<>>
        /\ JS_IsObject(obj) =>
             /\ Len(reads) = 1
             /\ reads[1].n = node.atom /\ reads[1].val = obj /\ reads[1].d = 0
             /\ js_is_null_or_undefined(filter) => obs.ret = value
             /\ JS_IsFunction(filter) =>
                  /\ obs.ret = JS_Call(filter, JS_UNDEFINED, <<value>>)
                  /\ Events(obs.log, "call") = <<Ev("call", 0, filter.v, JS_UNDEFINED, <<value>>, <<>>)>>
             /\ predicate_is(filter) => obs.ret = fresh.ret /\ fresh.s.p = 1

(* a Property node with a predicate post-filter, given an object and one   *)
(* more argument the filter did not take                                   *)
C9_Witness ==
  /\ IsEval
  /\ heap[obs.pr].id = PREDICATE_PROPERTY
  /\ predicate_is(heap[obs.pr].predicate)
  /\ Len(obs.args) = 2
  /\ JS_IsObject(obs.args[1])
  /\ obs.args[2] = JS_NewInt32(0)
  /\ obs.ret = JS_NewBool(TRUE)
  /\ obs.p = 1

(***************************************************************************)
(* C10: freeing a node leaves every other live node of the scenario (the   *)
(* clone when the original is freed, the original when the clone is) as    *)
(* it was: every node reachable from it keeps all its fields, every        *)
(* buffer and compiled form those nodes point to stays allocated with the  *)
(* same bytes, every value they refer to keeps at least one count per      *)
(* reference still held, and evaluating it on any arguments gives what it  *)
(* gave before the free.  (The source text of a node is computed from the  *)
(* fields and buffers that are shown unchanged.)                           *)
(***************************************************************************)
(* what an evaluation of pr lets the caller see *)
Outcome(h, b, pr, argv, g, ub) ==
  LET r == predicate_eval([EvalState(pr, argv, g, ub) EXCEPT !.h = h, !.b = b], pr)
  IN [ret |-> r.ret, p |-> r.s.p, uf |-> r.s.uf, crash |-> r.s.crash, log |-> r.s.log,
      a |-> r.s.a]

Survives(c) ==
  /\ \A q \in Reach(heap, c) :
       /\ heap'[q] = heap[q]
       /\ \A ptr \in NodeBufs(heap[q]) : bufs'[ptr] = bufs[ptr] /\ bufs'[ptr].alive
       /\ \A k \in 1..Len(NodeRefs(heap[q])) :
            LET value == NodeRefs(heap[q])[k]
            IN value \in DOMAIN rc =>
                 rc'[value] >= CountRefs(heap', value, 1) + HostRefs(value)
  /\ \A argv \in ArgSeqs, g \in Uninitialised(heap, c), ub \in NullBytecode(heap, bufs, c) :
       Outcome(heap', bufs', c, argv, g, ub) = Outcome(heap, bufs, c, argv, g, ub)

C11_FreeReleasesAll ==
  [][obs'.op = "free" =>
       /\ \A ptr \in NodeBufs(heap[obs'.pr]) : ~bufs'[ptr].alive
       /\ \A value \in DOMAIN rc : rc'[value] = CountRefs(heap', value, 1) + HostRefs(value)
       /\ \A q \in DOMAIN heap' :
            heap'[q].live => \A ptr \in NodeBufs(heap'[q]) : bufs'[ptr].alive]_vars

(***************************************************************************)
(* C12: compileRegex on a Regex node completes every time it is called,    *)
(* before or after an evaluation, returns the capture count of the pattern *)
(* every time (0 for a pattern that does not compile), and leaves a node   *)
(* that already holds a compiled form, and its buffers, unchanged.         *)
(***************************************************************************)
C12_CompileIdempotent ==
  [][(obs'.op = "compile" /\ heap[obs'.pr].id = PREDICATE_REGEXP) =>
       LET pattern == RegexpSource(obs'.pr)
       IN /\ ~obs'.crash
          /\ obs'.ret = JS_NewInt32(IF RegexpValid(pattern) THEN lre_get_capture_count(pattern)
                                    ELSE 0)
          /\ heap[obs'.pr].bytecode # 0 => (heap' = heap /\ bufs' = bufs)]_vars

(***************************************************************************)
(* C13: for a String, Charset or unary root (no Function or Member node in *)
(* the tree), the source text of the tree, applied to the arguments of an  *)
(* evaluation in the same order, gives the result of the evaluation.       *)
(***************************************************************************)
(* whether the bytes of part occur in whole, one after the other *)
IsSubstring(part, whole) ==
  \E i \in 0..Len(whole) : i + Len(part) <= Len(whole) /\ SubSeq(whole, i + 1, i + Len(part)) = part

(* the value of a source text "(names) => body" called with argv, for the  *)
(* bodies  name == 'literal',  'literal'.indexOf(name) != -1,  !name,      *)
(* !!name,  ~name  and  Math.sqrt(name);  JS("syntax", 0) for other texts  *)
js_call_source(text, argv) ==
  LET RECURSIVE find(_, _)
      find(pat, i) ==
        IF i + Len(pat) > Len(text) THEN 0 - 1
        ELSE IF SubSeq(text, i + 1, i + Len(pat)) = pat THEN i ELSE find(pat, i + 1)
      close == find(") => ", 0)
      header == SubSeq(text, 2, close)
      body == SubSeq(text, close + 6, Len(text))
      RECURSIVE split(_, _)
      split(str, word) ==
        IF str = "" THEN (IF word = "" THEN <<>> ELSE <<word>>)
        ELSE IF Head(str) = "," THEN <<word>> \o split(Tail(str), "")
        ELSE IF Head(str) = " " THEN split(Tail(str), word)
        ELSE split(Tail(str), word \o Head(str))
      names == split(header, "")
      bound(k) == IF k <= Len(argv) THEN argv[k] ELSE JS_UNDEFINED
      literal(i) == "'" \o dbuf_put_escaped(StrTab[i]) \o "'"
      forms ==
        {[k |-> k, i |-> i, f |-> f] :
           k \in 1..Len(names), i \in 1..Len(StrTab),
           f \in {"eq", "indexOf", "not", "notnot", "bnot", "sqrt"}}
      shape(x) ==
        CASE x.f = "eq" -> names[x.k] \o " == " \o literal(x.i)
          [] x.f = "indexOf" -> literal(x.i) \o ".indexOf(" \o names[x.k] \o ") != -1"
          [] x.f = "not" -> "!" \o names[x.k]
          [] x.f = "notnot" -> "!!" \o names[x.k]
          [] x.f = "bnot" -> "~" \o names[x.k]
          [] OTHER -> "Math.sqrt(" \o names[x.k] \o ")"
      value(x) ==
        CASE x.f = "eq" -> JS_NewBool(JS_ToCStringLen(bound(x.k)) = StrTab[x.i]
                                      /\ bound(x.k).t \in {"string", "int"})
          [] x.f = "indexOf" -> JS_NewBool(IsSubstring(JS_ToCStringLen(bound(x.k)), StrTab[x.i]))
          [] OTHER -> unary_op(CASE x.f = "not" -> PREDICATE_NOT
                                 [] x.f = "notnot" -> PREDICATE_NOTNOT
                                 [] x.f = "bnot" -> PREDICATE_BNOT
                                 [] OTHER -> PREDICATE_SQRT, bound(x.k))
      hits == {x \in forms : shape(x) = body}
  IN IF close < 0 \/ Head(text) # "(" \/ hits = {} THEN JS("syntax", 0)
     ELSE value(CHOOSE x \in hits : TRUE)

(* equal results; a boolean equals any value of the same truth *)
SameResult(x, y) ==
  \/ x = y
  \/ (x.t = "bool" \/ y.t = "bool") /\ x.t # "syntax" /\ y.t # "syntax" /\ JS_ToBool(x) = JS_ToBool(y)

C13_RoundTrip ==
  (/\ IsEval
   /\ ~obs.uf
   /\ heap[obs.pr].id \in {PREDICATE_STRING, PREDICATE_CHARSET} \cup UnaryIds
   /\ \A q \in Reach(heap, obs.pr) : heap[q].id \notin {PREDICATE_FUNCTION, PREDICATE_MEMBER}) =>
     \A pun \in Puns :
        LET src == predicate_tosource(heap, bufs, obs.pr,
                     [dbuf |-> "", args |-> NullArguments, abort |-> FALSE, uf |-> FALSE], pun)
        IN ~src.abort /\ SameResult(js_call_source(src.dbuf, obs.args), obs.ret)

ShiftSite(pr, argv, g, ub) ==
  LET s0 == Entered(pr, argv, g, ub)
      node == heap[pr]
  IN IF node.id = PREDICATE_SHIFT THEN [q |-> pr, s |-> s0, reached |-> TRUE]
     ELSE IF /\ node.id = PREDICATE_AND
             /\ node.npredicates = 2
             /\ predicate_is(node.predicates[2])
             /\ heap[js_predicate_data(node.predicates[2])].id = PREDICATE_SHIFT
     THEN LET first == predicate_value(s0, node.predicates[1])
              q == js_predicate_data(node.predicates[2])
          IN [q |-> q, s |-> Logged(first.s, "eval", q, JS_UNDEFINED, <<>>, <<>>),
              reached |-> Truthy(first.ret)]
     ELSE [q |-> 0, s |-> s0, reached |-> FALSE]

C17_ShiftAdvances ==
  [][(obs'.op = "eval" /\ ~obs'.crash) =>
       LET site == ShiftSite(obs'.pr, obs'.args, obs'.g, obs'.ub)
           n == heap[site.q].n
           from == site.s.p
           x == predicate_value([site.s EXCEPT !.p = from + n], heap[site.q].predicate)
           after == SubSeq(obs'.log, Len(site.s.log) + 1, Len(obs'.log))
       IN (site.reached /\ from + n <= site.s.c) =>
            /\ obs'.ret = x.ret
            /\ obs'.p = x.s.p
            /\ obs'.p >= from + n
            /\ obs'.log = x.s.log
            /\ \A i \in 1..Len(after) :
                 after[i].e = "shift" /\ after[i].d = 0 => after[i].n >= from + n]_vars

(* a Shift node reached after one argument was consumed skipped the second *)
C17_Witness ==
  /\ IsEval
  /\ heap[obs.pr].id = PREDICATE_AND
  /\ ShiftSite(obs.pr, obs.args, obs.g, obs.ub).reached
  /\ ShiftSite(obs.pr, obs.args, obs.g, obs.ub).s.p = 1
  /\ Len(obs.args) = 2
  /\ obs.p = 2
  /\ Len(Events(obs.log, "shift")) = 1

(***************************************************************************)
(* C18: keys returns one label per operand slot (left, right for a binary  *)
(* node; predicate for a unary node; 0..n-1 for a combinator) and values   *)
(* returns a sequence with the operand value of each of those slots in     *)
(* the same order: the two always have the same length.                    *)
(***************************************************************************)
C18_KeysAndValues ==
  (obs.op \in {"keys", "values"}) =>
     LET node == heap[obs.pr]
         keys == predicate_keys(heap, obs.pr)
         values == predicate_values(heap, bufs, obs.pr)
     IN /\ keys.ret = JS_NEWARRAY /\ values.ret = JS_NEWARRAY
        /\ Len(keys.elems) = Len(values.elems)
        /\ node.id \in BinaryIds =>
             /\ keys.elems = <<JS("name", 2), JS("name", 3)>>
             /\ values.elems = <<node.left, node.right>>
        /\ node.id \in UnaryIds =>
             keys.elems = <<JS("name", 1)>> /\ values.elems = <<node.predicate>>
        /\ node.id \in BooleanIds =>
             /\ keys.elems = [i \in 1..node.npredicates |-> JS_NewInt32(i - 1)]
             /\ values.elems = node.predicates
        /\ obs.ret = (IF obs.op = "keys" THEN keys.ret ELSE values.ret)
        /\ obs.elems = (IF obs.op = "keys" THEN keys.elems ELSE values.elems)

(***************************************************************************)
(* C19: eval, dump and toSource of a node of any of the 27 kinds complete  *)
(* without reaching an assert, whatever the kinds of its operands.         *)
(***************************************************************************)
C19_NoAbort ==
  /\ obs.op \in {"dump", "tosource"} => ~obs.crash
  /\ (obs.op = "eval" /\ obs.ub = 0) => ~obs.crash

(***************************************************************************)
(* C20: in the record of one evaluation, the argument positions read       *)
(* within one cursor are strictly increasing in the order they are read    *)
(* (the cursor never moves backwards, no position is handed out twice, a   *)
(* later sibling reads after an earlier one), the cursor ends at or after  *)
(* the last position read, and a cursor of its own (one level deeper,      *)
(* starting at position 0) is only ever entered by the call that applies   *)
(* the filter of a Property node to the value just read.                   *)
(***************************************************************************)
(* events i < j of a log belong to the same cursor: same depth, and the    *)
(* evaluation did not return to a shallower depth in between               *)
SameCursor(log, i, j) ==
  /\ log[i].d = log[j].d
  /\ \A k \in i..j : log[k].d >= log[i].d

C20_OneCursor ==
  IsEval =>
    LET log == obs.log
        reads == {i \in 1..Len(log) : log[i].e = "shift"}
    IN /\ \A i, j \in reads : (i < j /\ SameCursor(log, i, j)) => log[i].n < log[j].n
       /\ \A i \in reads : log[i].d = 0 => log[i].n < obs.p
       /\ \A i \in reads : log[i].d = 0 => log[i].val = obs.args[log[i].n + 1]
       /\ Len(log) >= 1 => log[1].d = 0
       /\ \A i \in 2..Len(log) :
            /\ log[i].d <= log[i - 1].d + 1
            /\ log[i].d = log[i - 1].d + 1 =>
                 /\ log[i - 1].e = "getprop"
                 /\ log[i].e = "eval"
       /\ \A i \in reads :
            (log[i].d > 0 /\ ~\E j \in reads : j < i /\ SameCursor(log, j, i)) => log[i].n = 0

(* two siblings read positions 0 and 1 of the cursor of the evaluation *)
C20_Witness ==
  /\ IsEval
  /\ Len(obs.args) = 2
  /\ obs.p = 2
  /\ \E i, j \in 1..Len(obs.log) :
       /\ i < j
       /\ obs.log[i].e = "shift" /\ obs.log[i].d = 0 /\ obs.log[i].n = 0
       /\ obs.log[j].e = "shift" /\ obs.log[j].d = 0 /\ obs.log[j].n = 1
       /\ \E k \in (i + 1)..(j - 1) : obs.log[k].e = "eval"

(***************************************************************************)
(* C21: over any sequence of evaluations and compileRegex calls, the       *)
(* compiled form of a live Regex node, once set, stays the same buffer     *)
(* with the same contents; it is set only by an evaluation or a            *)
(* compileRegex call that found it null, and a compileRegex call on a      *)
(* compiled node compiles nothing.                                         *)
(***************************************************************************)
C21_CompiledOnce ==
  [][\A q \in DOMAIN heap :
       (heap[q].live /\ heap[q].id = PREDICATE_REGEXP /\ q \in DOMAIN heap' /\ heap'[q].live) =>
         /\ heap[q].bytecode # 0 =>
              /\ heap'[q].bytecode = heap[q].bytecode
              /\ bufs'[heap[q].bytecode] = bufs[heap[q].bytecode]
              /\ DOMAIN bufs' = DOMAIN bufs
         /\ heap'[q].bytecode # heap[q].bytecode =>
              /\ heap[q].bytecode = 0
              /\ obs'.op \in {"eval", "compile"}
              /\ obs'.pr = q
              /\ bufs'[heap'[q].bytecode].alive]_vars

(* compileRegex was called on a node that holds a compiled form *)
C21_Witness ==
  /\ obs.op = "compile"
  /\ obs.crash
  /\ heap[obs.pr].id = PREDICATE_REGEXP
  /\ heap[obs.pr].bytecode # 0
  /\ bufs[heap[obs.pr].bytecode].alive

(***************************************************************************)
(* C22: in the source text of a binary or boolean node with one nested     *)
(* node among its operands, the text of the nested node stands in          *)
(* parentheses exactly when its precedence is strictly lower than the      *)
(* parent's, or equal to it with the grouping open to doubt (the right     *)
(* operand of -, /, % or atan2, the left operand of pow).                  *)
(***************************************************************************)
(* the text after the first parameter-list header of a source text *)
SourceBody(text) ==
  LET RECURSIVE find(_)
      find(i) == IF i + 4 > Len(text) THEN Len(text)
                 ELSE IF SubSeq(text, i + 1, i + 4) = " => " THEN i + 4 ELSE find(i + 1)
  IN SubSeq(text, find(0) + 1, Len(text))

(* the operands of a binary or boolean node, in the order they are written *)
WrittenOperands(node) ==
  IF node.id \in BinaryIds THEN <<node.left, node.right>>
  ELSE IF node.id \in BooleanIds THEN node.predicates
  ELSE <<>>

(* equal precedence leaves the grouping open: operand i of this operator   *)
(* would be read with the wrong grouping without parentheses               *)
AmbiguousGrouping(id, i) ==
  \/ i = 2 /\ id \in {PREDICATE_SUB, PREDICATE_DIV, PREDICATE_MOD, PREDICATE_ATAN2}
  \/ i = 1 /\ id = PREDICATE_POW

C22_Parentheses ==
  (obs.op = "tosource" /\ ~obs.crash) =>
     LET node == heap[obs.pr]
         operands == WrittenOperands(node)
         nested == {i \in 1..Len(operands) : predicate_is(operands[i])}
     IN Cardinality(nested) = 1 =>
          LET i == CHOOSE k \in nested : TRUE
              child == js_predicate_data(operands[i])
              alone == predicate_tosource(heap, bufs, child,
                         [dbuf |-> "", args |-> NullArguments, abort |-> FALSE, uf |-> FALSE],
                         [type |-> 0, charset |-> 0, string |-> 0])
              wrapped == IsSubstring("(" \o SourceBody(alone.dbuf) \o ")", obs.text)
              lower == predicate_precedence(heap[child]) < predicate_precedence(node)
              equal == predicate_precedence(heap[child]) = predicate_precedence(node)
          IN wrapped <=> (lower \/ (equal /\ AmbiguousGrouping(node.id, i)))

(***************************************************************************)
(* C23: the text of one top-level toSource call holds exactly one          *)
(* parameter-list header, and the text begins with it: the text is the     *)
(* header of the names handed out during the call followed by a body that  *)
(* holds no further header.                                                *)
(***************************************************************************)
(* how many times the end of a header, " => ", occurs in a text *)
HeaderCount(text) ==
  Cardinality({i \in 0..Len(text) : i + 4 <= Len(text) /\ SubSeq(text, i + 1, i + 4) = " => "})

(* does the text begin with a parenthesised list that " => " follows *)
StartsWithHeader(text) ==
  /\ Len(text) >= 1 /\ SubSeq(text, 1, 1) = "("
  /\ \E i \in 1..Len(text) :
        /\ i + 5 <= Len(text) /\ SubSeq(text, i + 1, i + 5) = ") => "
        /\ \A j \in 1..i : SubSeq(text, j, j) \notin {"(", ")", "=", ">"}

C23_OneHeader ==
  (obs.op = "tosource" /\ ~obs.crash) =>
     /\ StartsWithHeader(obs.text)
     /\ HeaderCount(obs.text) = 1

(***************************************************************************)
(* C24: resolving a plain callable on a cursor calls it with exactly the   *)
(* arguments the cursor has not yet consumed, and resolving a literal      *)
(* that is no callable returns the literal and leaves the cursor where it  *)
(* was.  Stated for trees of unary, arithmetic and boolean nodes, where    *)
(* every call comes from resolving an operand and the cursor has moved     *)
(* once for every argument read before the call.                           *)
(***************************************************************************)
(* the arguments of an evaluation that were not yet read when entry i of   *)
(* its record was written                                                  *)
Unconsumed(log, argv, i) ==
  LET read == Len(Events(SubSeq(log, 1, i - 1), "shift"))
  IN SubSeq(argv, read + 1, Len(argv))

C24_ValueCall ==
  (/\ IsEval
   /\ \A q \in Reach(heap, obs.pr) : heap[q].id \in UnaryIds \cup BinaryIds \cup BooleanIds) =>
     /\ \A i \in 1..Len(obs.log) :
           obs.log[i].e = "call" => obs.log[i].args = Unconsumed(obs.log, obs.args, i)
     /\ LET node == heap[obs.pr]
        IN (/\ node.id \in UnaryIds
            /\ ~js_is_null_or_undefined(node.predicate)
            /\ ~predicate_callable(node.predicate)) =>
              /\ obs.p = 0
              /\ obs.ret = unary_op(node.id, node.predicate)

(***************************************************************************)
(* C25: a node that has been freed holds no valid kind, and evaluating it  *)
(* afterwards ends in the error for an invalid kind.                       *)
(***************************************************************************)
(* the kinds predicate_eval has a case for *)
ValidKinds == PREDICATE_TYPE..PREDICATE_FUNCTION

C25_FreedIsUnset ==
  \A q \in DOMAIN heap :
     ~heap[q].live =>
        /\ heap[q].id \notin ValidKinds
        /\ predicate_eval(EvalState(q, <<JS_NewInt32(3)>>, JS_GARBAGE, 0), q).s.crash

(***************************************************************************)
(* Every operation that is not a free, on the root and on its clones, in   *)
(* any order.                                                              *)
(***************************************************************************)
(* the arguments of these evaluations: a number, two texts and a function *)
MixedValues == {JS_NewInt32(3), JS_NewString(3), JS_NewString(5), JS_Function(1)}

NextAll ==
  \/ /\ obs.op # "eval"
     /\ \E pr \in Targets :
          \E g \in Uninitialised(heap, pr), ub \in NullBytecode(heap, bufs, pr) :
            \E argv \in SeqsUpTo(MixedValues, MaxArgs) : Eval(pr, argv, g, ub)
  \/ Release
  \/ Clone(root)
  \/ \E pr \in Targets : CompileRegex(pr)
  \/ \E pr \in Targets : \E pun \in Puns : ToSource(pr, pun)
  \/ \E pr \in Targets : Dump(pr)
  \/ \E pr \in Targets : Keys(pr)
  \/ \E pr \in Targets : Values(pr)

SpecAll == Init /\ [][NextAll]_vars

(***************************************************************************)
(* C26: no evaluation, call, dump, toSource, keys, values or clone changes *)
(* the kind, the literals, the operand references, the combinator length   *)
(* or the arity of a live node; the only fields written are the decoded    *)
(* code points of a Charset node and the compiled form of a Regex node,    *)
(* and only an evaluation or compileRegex writes them.                     *)
(***************************************************************************)
(* what a node is built from: every field but its two caches, and the      *)
(* bytes of its literals                                                   *)
Structure(h, b, q) ==
  [node |-> [h[q] EXCEPT !.chars = 0, !.bytecode = 0],
   set |-> BufData(b, h[q].set), str |-> BufData(b, h[q].str), source |-> BufData(b, h[q].source)]

C26_StructureKept ==
  [][\A q \in DOMAIN heap :
       heap[q].live =>
         /\ q \in DOMAIN heap'
         /\ Structure(heap', bufs', q) = Structure(heap, bufs, q)
         /\ (heap'[q].chars # heap[q].chars \/ heap'[q].bytecode # heap[q].bytecode) =>
               obs'.op \in {"eval", "compile"}]_vars

C26_Witness ==
  /\ obs.op = "eval"
  /\ Clones # {}
  /\ \E q \in DOMAIN heap : heap[q].live /\ (heap[q].chars # 0 \/ heap[q].bytecode # 0)

(***************************************************************************)
(* C27: when an evaluation returns, every argument of the cursor is owned  *)
(* as often as before: the evaluation has given up no reference to an      *)
(* argument, which it only borrows, and every input made from an argument  *)
(* has been given back.                                                    *)
(***************************************************************************)
(* the entries of a record of the kind e that concern the value *)
EventsOf(log, e, value) == SelectSeq(log, LAMBDA x : x.e = e /\ x.val = value)

C27_ArgumentsBalanced ==
  IsEval =>
     \A k \in 1..Len(obs.args) :
        /\ EventsOf(obs.log, "free", obs.args[k]) = <<>>
        /\ Len(EventsOf(obs.log, "input", obs.args[k])) =
             Len(EventsOf(obs.log, "input_free", obs.args[k]))

(***************************************************************************)
(* The operations on one Promise record, in any order.                     *)
(***************************************************************************)
predicates == <<heap, bufs, rc, arrays, root, obs>>

PromiseInit ==
  /\ ~prom.crash
  /\ prom.promise = JS_UNDEFINED
  /\ prom' = [promise_init(prom) EXCEPT !.op = "init"]
  /\ UNCHANGED <<predicates, dec, xml>>

PromiseResolve(value, stray) ==
  /\ ~prom.crash
  /\ prom.tries < MaxSettles
  /\ prom' = [promise_resolve(prom, value, stray) EXCEPT !.op = "resolve", !.tries = @ + 1]
  /\ UNCHANGED <<predicates, dec, xml>>

PromiseReject(value, stray) ==
  /\ ~prom.crash
  /\ prom.tries < MaxSettles
  /\ prom' = [promise_reject(prom, value, stray) EXCEPT !.op = "reject", !.tries = @ + 1]
  /\ UNCHANGED <<predicates, dec, xml>>

PromiseZero ==
  /\ ~prom.crash
  /\ prom' = [promise_zero(prom) EXCEPT !.op = "zero", !.calls = <<>>, !.tries = 0]
  /\ UNCHANGED <<predicates, dec, xml>>

PromiseFree ==
  /\ ~prom.crash
  /\ prom.promise # JS_UNDEFINED
  /\ prom' = [promise_free(prom) EXCEPT !.op = "free", !.calls = <<>>, !.tries = 0]
  /\ UNCHANGED <<predicates, dec, xml>>

NextPromise ==
  \/ PromiseInit
  \/ \E value \in PromiseValues, stray \in StrayFree : PromiseResolve(value, stray)
  \/ \E value \in PromiseValues, stray \in StrayFree : PromiseReject(value, stray)
  \/ PromiseZero
  \/ PromiseFree

InitPromise == root = 1 /\ Init

SpecPromise == InitPromise /\ [][NextPromise]_vars

(***************************************************************************)
(* C28: a Promise record settles at most once.  Of the promise_resolve     *)
(* and promise_reject calls made since promise_init, exactly the first     *)
(* invokes a resolving function; promise_pending and promise_done are      *)
(* never both true; pending holds from promise_init until the first of     *)
(* these calls and done from then on; neither holds on a zeroed record.    *)
(***************************************************************************)
C28_SettlesOnce ==
  /\ ~(promise_pending(prom) /\ promise_done(prom))
  /\ prom.promise = JS_UNDEFINED => ~promise_pending(prom) /\ ~promise_done(prom)
  /\ prom.promise # JS_UNDEFINED =>
       /\ Len(prom.calls) = (IF prom.tries = 0 THEN 0 ELSE 1)
       /\ promise_pending(prom) <=> prom.tries = 0
       /\ promise_done(prom) <=> prom.tries > 0
       /\ prom.ret = JS_UNDEFINED

(***************************************************************************)
(* One UTF-8 TextDecoder fed a stream in chunks: decode() on the next n    *)
(* bytes, and end() on the next n bytes.                                   *)
(***************************************************************************)
DecoderNew(stream) ==
  /\ dec.op = "none"
  /\ dec' = [DecoderNone EXCEPT !.op = "new", !.stream = stream]
  /\ UNCHANGED <<predicates, prom, xml>>

DecoderCall(magic, n, room, g) ==
  /\ dec.op \in {"new", "decode"}
  /\ Len(dec.out) < MaxDecodes
  /\ dec.fed + n <= Len(dec.stream)
  /\ room <= n
  /\ room < n => CanWrap(dec.buffer, SubSeq(dec.stream, dec.fed + 1, dec.fed + n), room)
  /\ LET r == js_decoder_decode(dec.buffer, SubSeq(dec.stream, dec.fed + 1, dec.fed + n),
                                magic, room, g)
     IN dec' = [dec EXCEPT !.op = magic, !.fed = @ + n, !.buffer = r.buffer,
                           !.out = Append(@, r.ret), !.overread = @ \/ r.overread]
  /\ UNCHANGED <<predicates, prom, xml>>

DecoderDecode(n, room, g) == DecoderCall("decode", n, room, g)

DecoderEnd(n, room, g) == DecoderCall("end", n, room, g)

MaxStream == 4

NextDecoder ==
  \/ \E stream \in Streams : DecoderNew(stream)
  \/ \E n \in 0..MaxStream, room \in 0..MaxStream, g \in OverRead : DecoderDecode(n, room, g)
  \/ \E n \in 0..MaxStream, room \in 0..MaxStream, g \in OverRead : DecoderEnd(n, room, g)

InitDecoder == root = 1 /\ Init

SpecDecoder == InitDecoder /\ [][NextDecoder]_vars

(***************************************************************************)
(* C29: the texts returned by the decode() calls on the chunks of a valid  *)
(* UTF-8 stream, put together, are the decoding of the bytes fed so far    *)
(* that form complete sequences, wherever the chunks end; the bytes of an  *)
(* incomplete last sequence are held in the buffer, which `buffered`       *)
(* counts; after end() the buffer is empty.                                *)
(***************************************************************************)
RECURSIVE Texts(_)
Texts(out) == IF out = <<>> THEN <<>> ELSE Head(out).text \o Texts(Tail(out))

C29_ChunksConcatenate ==
  dec.op \in {"decode", "end"} =>
     LET fed == SubSeq(dec.stream, 1, dec.fed)
         complete == textdecoder_try(fed)
     IN /\ dec.op = "decode" =>
             /\ Texts(dec.out) = utf8_text(SubSeq(fed, 1, complete))
             /\ js_decoder_get(dec.buffer) = dec.fed - complete
             /\ dec.buffer.first \o dec.buffer.second = SubSeq(fed, complete + 1, dec.fed)
        /\ dec.op = "end" =>
             /\ Texts(dec.out) = utf8_text(SubSeq(fed, 1, complete))
             /\ js_decoder_get(dec.buffer) = 0

(***************************************************************************)
(* One parse of an input of tags, one turn of the loop at a time.          *)
(***************************************************************************)
XmlParse(input, g) ==
  /\ xml.op = "none"
  /\ xml' = [XmlNone EXCEPT !.op = "parse", !.input = input, !.ret = "array",
                            !.st = <<[name |-> g, owner |-> 0]>>]
  /\ UNCHANGED <<predicates, prom, dec>>

XmlRead ==
  /\ xml.op = "parse"
  /\ xml' = js_xml_parse(xml)
  /\ UNCHANGED <<predicates, prom, dec>>

NextXml ==
  \/ \E input \in SeqsUpTo(Tags, MaxTags), g \in RootGarbage : XmlParse(input, g)
  \/ XmlRead

InitXml == root = 1 /\ Init

SpecXml == InitXml /\ [][NextXml]_vars

(***************************************************************************)
(* C30: in a parse that is not flat, a closing tag closes the nearest open *)
(* element of its name and every element opened inside it, so that the     *)
(* stack ends with the entry of that element's parent, to which the next   *)
(* element is appended; a closing tag whose name no open element has ends  *)
(* the parse with a SyntaxError and no result array; the first entry of    *)
(* the stack is never removed.                                             *)
(***************************************************************************)
(* the entries of the stack, from 1, that stand for an open element named  *)
(* name: every entry but the first                                         *)
OpenNamed(st, name) == {k \in 2..Len(st) : st[k].name = name}

C30_ClosingTags ==
  [][(xml.op = "parse" /\ xml.pos < Len(xml.input)) =>
       LET tag == xml.input[xml.pos + 1]
           open == OpenNamed(xml.st, tag.name)
       IN /\ xml'.st # <<>> /\ xml'.st[1] = xml.st[1]
          /\ (tag.k = "close" /\ open # {}) =>
                LET k == CHOOSE k \in open : \A o \in open : o <= k
                IN /\ xml'.op = "parse"
                   /\ xml'.st = SubSeq(xml.st, 1, k - 1)
                   /\ xml'.st[k - 1].owner = xml.nodes[xml.st[k].owner].parent
          /\ (tag.k = "close" /\ open = {}) => xml'.op = "error" /\ xml'.ret = "SyntaxError"
          /\ tag.k = "open" =>
                /\ xml'.nodes[Len(xml'.nodes)].parent = xml.st[Len(xml.st)].owner
                /\ Len(xml'.st) = Len(xml.st) + 1]_vars

====
